---------------------------- MODULE Spec2Model ----------------------------
(***************************************************************************)
(* A model of the credential and session core of pichulie-backend:         *)
(* registration, login behind the login limiter, the bearer-token guard    *)
(* (authenticateToken) and the password-reset token lifecycle              *)
(* (requestPasswordReset, resendResetToken, validateResetToken,            *)
(* resetPassword).                                                         *)
(*                                                                         *)
(* Strings whose content the code inspects (emails, passwords) are         *)
(* sequences of one-character strings.  Time is Date.now() in              *)
(* milliseconds.  A user's _id is its position in the store.               *)
(*                                                                         *)
(* A request is handled in one step, except in the specifications of      *)
(* requests in flight, where a handler takes one step per store call it   *)
(* awaits.  crypto.randomBytes(32) is a value that was never returned     *)
(* before.  A bcrypt hash is a string that records the plaintext it       *)
(* verifies, and is not the plaintext; the salt is left out.              *)
(***************************************************************************)
EXTENDS Integers, Sequences, FiniteSets, TLC

VARIABLES
    users,      \* the User collection, in insertion order; _id = index
    clock,      \* Date.now(), milliseconds
    attempts,   \* loginLimiter's map ip -> NoRecord | [count, firstAttempt]
    jwts,       \* session tokens handed out by login that a client kept
    tokenCount, \* number of reset tokens generated so far
    res,        \* the last response: [op, status, body]
    reqUser,    \* req.user after the last authenticateToken call
    nextCalled, \* whether the last middleware call invoked next()
    consumed,   \* history: reset tokens consumed by a successful resetPassword
    superseded, \* history: reset tokens overwritten by a later issuance
    win,        \* history: per address, the current throttle window
    accepted,   \* history: per user, the last plaintext accepted as its password
    hist,       \* history: the last step taken and its inputs
    inflight,   \* requests being handled: per request, the handler, its
                \* position, its inputs and the document it loaded
    loggedOut   \* history: session tokens a client presented to POST /logout

vars == <<users, clock, attempts, jwts, tokenCount, res, reqUser,
          nextCalled, consumed, superseded, win, accepted, hist, inflight,
          loggedOut>>

---------------------------------------------------------------------------
(* Bounds of the model *)

\* user records in the collection
MaxUsers == 2
\* reset tokens generated
MaxTokens == 2
\* steps of the clock, per specification
MaxTicksReset == 3
MaxTicksLogin == 2
MaxTicksAuth == 3
\* value of an address's attempt counter
MaxCount == 6
\* session tokens a client keeps
MaxJwts == 1

---------------------------------------------------------------------------
(* Strings *)

LowerChars == {"a", "b", "c", "d", "e", "f", "g", "h", "s", "w", "x"}
UpperChars == {"A", "B", "N", "P"}
DigitChars == {"1", "2"}

\* String.prototype.toLowerCase, character by character
LowerChar(c) ==
    CASE c = "A" -> "a"
      [] c = "B" -> "b"
      [] c = "N" -> "n"
      [] c = "P" -> "p"
      [] OTHER -> c

toLowerCase(s) == [i \in DOMAIN s |-> LowerChar(s[i])]

\* String.prototype.trim: without the spaces at both ends
trim(s) ==
    LET inked == {i \in DOMAIN s : s[i] # " "}
        first == CHOOSE i \in inked : \A j \in inked : i <= j
        last == CHOOSE i \in inked : \A j \in inked : i >= j
    IN  IF inked = {} THEN <<>> ELSE SubSeq(s, first, last)

\* "a@x", "A@x", "b@x"
EmailA == <<"a", "@", "x">>
EmailAUpper == <<"A", "@", "x">>
EmailB == <<"b", "@", "x">>
\* the empty string: a missing (falsy) field
Empty == <<>>

\* "Abcdef12", "NewPass12", "Ab1" (too short), "Abcdefgh" (no digit)
PwAbcdef12 == <<"A", "b", "c", "d", "e", "f", "1", "2">>
PwNewPass12 == <<"N", "e", "w", "P", "a", "s", "s", "1", "2">>
PwShort == <<"A", "b", "1">>
PwNoDigit == <<"A", "b", "c", "d", "e", "f", "g", "h">>
PwNoUpper == <<"a", "b", "c", "d", "e", "f", "1", "2">>
PwNoLower == <<"A", "B", "N", "P", "A", "B", "1", "2">>

\* faulty variant: no digit is asked for
passwordRegexTest_LettersOnly(p) ==
    /\ \E i \in DOMAIN p : p[i] \in LowerChars
    /\ \E i \in DOMAIN p : p[i] \in UpperChars

\* /^(?=.*[a-z])(?=.*[A-Z])(?=.*\d).+$/.test(p)
passwordRegexTest(p) ==
    /\ Len(p) >= 1
    /\ \E i \in DOMAIN p : p[i] \in LowerChars
    /\ \E i \in DOMAIN p : p[i] \in UpperChars
    /\ \E i \in DOMAIN p : p[i] \in DigitChars

\* faulty variant: the plaintext is stored as it is
bcryptHash_Plaintext(p) == p

\* bcrypt.hash(p, 10): a string that starts with the algorithm and cost, and
\* that verifies the plaintext it was made from and no other
bcryptHash(p) == <<"$2b$10$">> \o p

\* bcrypt.compare(p, h)
bcryptCompare(p, h) == h = bcryptHash(p)

---------------------------------------------------------------------------
(* The User schema and the store queries *)

\* an unset String / Date field of a document
Undefined == 0

\* new User({email, password, name, age}) with the schema defaults
NewUser(email, hashedPassword, name, age) ==
    [ email |-> email,
      password |-> hashedPassword,
      name |-> name,
      age |-> age,
      isBlocked |-> FALSE,
      resetPasswordToken |-> Undefined,
      resetPasswordExpires |-> Undefined,
      resetPasswordUsed |-> FALSE ]

NotFound == 0

\* User.findOne({ email }): exact string match, first document in natural order
findOneByEmail(store, email) ==
    LET hits == {i \in DOMAIN store : store[i].email = email}
    IN  IF hits = {} THEN NotFound
        ELSE CHOOSE i \in hits : \A j \in hits : i <= j

\* User.findOne({ resetPasswordToken: token })
findOneByResetToken(store, token) ==
    LET hits == {i \in DOMAIN store : store[i].resetPasswordToken = token}
    IN  IF hits = {} THEN NotFound
        ELSE CHOOSE i \in hits : \A j \in hits : i <= j

\* User.findById(id)
findById(store, id) == IF id \in DOMAIN store THEN id ELSE NotFound

---------------------------------------------------------------------------
(* Responses *)

Response(op, status, body) == [op |-> op, status |-> status, body |-> body]

\* no response was written for the request
NoResponseStatus == 0

\* `handleServerError(error, context, res)`: the name is bound to the object
\* exported by middlewares/errorHandler ({globalErrorHandler,
\* notFoundHandler}), so the call throws inside the catch block and the
\* handler's promise rejects.  What the caller then sees depends on the
\* framework: nothing at all, or the global error handler's generic 500.
handleServerErrorOutcomes(op) ==
    { Response(op, NoResponseStatus, [none |-> TRUE]),
      Response(op, 500, [success |-> FALSE, message |-> "Try again later"]) }

\* The catch block of the handler named op, entered when a store call in its
\* try block rejects: validateResetToken writes its own 500, the others call
\* handleServerError.
catchOutcomes(op) ==
    IF op = "validateResetToken"
    THEN { Response(op, 500, [ success |-> FALSE, message |-> "Try it again later",
                               valid |-> FALSE, errorType |-> "server_error" ]) }
    ELSE handleServerErrorOutcomes(op)

---------------------------------------------------------------------------
(* Registration *)

\* register(req, res) with req.body = b
register(store, b) ==
    LET keep(status, message) ==
            [ users |-> store,
              res |-> Response("register", status, [message |-> message]) ]
    IN
    IF b.email = Empty \/ b.password = Empty \/ b.passwordCheck = Empty
       \/ b.name = Empty \/ b.age = 0
    THEN keep(400, "Not all fields have been entered.")
    ELSE IF b.age < 13
    THEN keep(400, "You must be at least 13 years old to register")
    ELSE IF b.age > 122
    THEN keep(400, "Please enter a valid age")
    ELSE IF Len(b.password) < 8
    THEN keep(400, "Password must be at least 8 characters long")
    ELSE IF ~passwordRegexTest(b.password)
    THEN keep(400, "Password must contain at least one uppercase letter, one lowercase letter, and one number.")
    ELSE IF b.password # b.passwordCheck
    THEN keep(400, "Passwords do not match. Please try again")
    ELSE IF findOneByEmail(store, b.email) # NotFound
    THEN keep(409, "An account with this email already exists")
    ELSE
        [ users |-> Append(store, NewUser(b.email, bcryptHash(b.password), b.name, b.age)),
          res |-> Response("register", 201,
                     [ message |-> "User registered successfully",
                       userId |-> Len(store) + 1 ]) ]

---------------------------------------------------------------------------
(* Profile update *)

\* User.findOne({ email: { $regex: '^' + escapeRegex(email) + '$', $options: 'i' } }):
\* the first document whose email is the given one up to letter case
findOneByEmailIgnoreCase(store, email) ==
    LET hits == {i \in DOMAIN store : toLowerCase(store[i].email) = toLowerCase(email)}
    IN  IF hits = {} THEN NotFound
        ELSE CHOOSE i \in hits : \A j \in hits : i <= j

\* user.toObject() without the password
safeUser(user) ==
    [ email |-> user.email, name |-> user.name, age |-> user.age,
      isBlocked |-> user.isBlocked,
      resetPasswordToken |-> user.resetPasswordToken,
      resetPasswordExpires |-> user.resetPasswordExpires,
      resetPasswordUsed |-> user.resetPasswordUsed ]

\* faulty variant: the old password is not compared with the stored hash
oldPasswordRejected_Skipped(oldPassword, user) == FALSE

\* if (oldPassword) { if (!(await bcrypt.compare(oldPassword, user.password))) ... }
oldPasswordRejected(oldPassword, user) ==
    oldPassword # Empty /\ ~bcryptCompare(oldPassword, user.password)

\* faulty variant: the new password is compared with the stored hash
samePassword_AgainstHash(oldPassword, password, user) ==
    oldPassword # Empty /\ password = user.password

\* if (oldPassword && oldPassword === password)
samePassword(oldPassword, password, user) ==
    oldPassword # Empty /\ oldPassword = password

\* the age of a request body that has none (undefined)
NoAge == -1

\* faulty variant: no upper limit
ageOutOfRange_NoUpperLimit(ageNum) == ageNum < 13

\* Number.isNaN(ageNum) || ageNum < 13 || ageNum > 122, for ages that are
\* numbers
ageOutOfRange(ageNum) == ageNum < 13 \/ ageNum > 122

\* update(req, res) with req.user.id = userId and req.body = b; a missing
\* field of the body is Empty (age: NoAge).  The assignments are made on the
\* loaded document and reach the store with user.save() only.
update(store, userId, b) ==
    LET op == "update"
        id == findById(store, userId)
        keep(status, message) ==
            [ users |-> store, res |-> Response(op, status, [message |-> message]) ]
        providedEmail == trim(b.email)
        other == findOneByEmailIgnoreCase(store, providedEmail)
        withEmail(u) == IF b.email # Empty /\ providedEmail # Empty
                        THEN [u EXCEPT !.email = providedEmail] ELSE u
        withAge(u) == IF b.age # NoAge THEN [u EXCEPT !.age = b.age] ELSE u
        withPassword(u) == IF b.password # Empty
                           THEN [u EXCEPT !.password = bcryptHash(b.password)] ELSE u
        withName(u) == IF b.name # Empty THEN [u EXCEPT !.name = b.name] ELSE u
    IN
    IF id = NotFound
    THEN keep(404, "User not found")
    ELSE IF b.email = Empty /\ b.name = Empty /\ (b.age = NoAge \/ b.age = 0)
            /\ b.oldPassword = Empty /\ b.password = Empty
    THEN keep(400, "At least one field must be filled")
    ELSE IF (b.oldPassword # Empty /\ b.password = Empty)
            \/ (b.oldPassword = Empty /\ b.password # Empty)
    THEN keep(400, "To update the password both old and new password are required")
    ELSE IF /\ b.email # Empty /\ providedEmail # Empty
            /\ toLowerCase(trim(store[id].email)) # toLowerCase(providedEmail)
            /\ other # NotFound /\ other # id
    THEN keep(409, "An account with this email already exists")
    ELSE IF b.age # NoAge /\ ageOutOfRange(b.age)
    THEN keep(400, "Please enter a valid age")
    ELSE IF oldPasswordRejected(b.oldPassword, store[id])
    THEN keep(401, "Invalid password")
    ELSE IF b.password # Empty /\ samePassword(b.oldPassword, b.password, store[id])
    THEN keep(400, "New password cannot be the same as the old password")
    ELSE IF b.password # Empty /\ Len(b.password) < 8
    THEN keep(400, "New password must be at least 8 characters long")
    ELSE IF b.password # Empty /\ ~passwordRegexTest(b.password)
    THEN keep(400, "New password must contain at least one uppercase letter, one lowercase letter, and one number.")
    ELSE
        LET saved == withName(withPassword(withAge(withEmail(store[id]))))
        IN  [ users |-> [store EXCEPT ![id] = saved],
              res |-> Response(op, 200, [ message |-> "User updated successfully",
                                          user |-> safeUser(saved) ]) ]

---------------------------------------------------------------------------
(* The reset-token lifecycle *)

RESET_TOKEN_TTL == 3600000

\* faulty variant: the token is already expired at its expiry instant
isExpired_Inclusive(now, expires) == expires # Undefined /\ now >= expires

\* Date.now() > user.resetPasswordExpires (false against an unset field)
isExpired(now, expires) == expires # Undefined /\ now > expires

\* faulty variant: a token already stored is kept, only its expiry is renewed
issueResetToken_KeepsOld(user, resetToken, now) ==
    [user EXCEPT !.resetPasswordToken =
                     IF @ = Undefined THEN resetToken ELSE @,
                 !.resetPasswordExpires = now + 3600000,
                 !.resetPasswordUsed = FALSE]

\* requestPasswordReset / resendResetToken: the three assignments that issue
\* a token on the loaded document
issueResetToken(user, resetToken, now) ==
    [user EXCEPT !.resetPasswordToken = resetToken,
                 !.resetPasswordExpires = now + RESET_TOKEN_TTL,
                 !.resetPasswordUsed = FALSE]

\* faulty variant: the new hash is not assigned
consumeResetToken_KeepsPassword(user, hashedPassword) ==
    [user EXCEPT !.resetPasswordToken = Undefined,
                 !.resetPasswordExpires = Undefined,
                 !.resetPasswordUsed = TRUE]

\* resetPassword: the four assignments that consume the token
consumeResetToken(user, hashedPassword) ==
    [user EXCEPT !.password = hashedPassword,
                 !.resetPasswordToken = Undefined,
                 !.resetPasswordExpires = Undefined,
                 !.resetPasswordUsed = TRUE]

\* requestPasswordReset(req, res): resetToken is what crypto.randomBytes
\* returned, mailOk whether transporter.sendMail resolved.  `res` is the set
\* of responses the caller may see, `mailed` whether the link was delivered.
requestPasswordReset(store, now, email, resetToken, mailOk) ==
    LET op == "requestPasswordReset"
        id == findOneByEmail(store, email)
    IN
    IF email = Empty
    THEN [ users |-> store, issuedTo |-> NotFound, mailed |-> FALSE,
           res |-> {Response(op, 400, [message |-> "Email is required"])} ]
    ELSE IF id = NotFound
    THEN [ users |-> store, issuedTo |-> NotFound, mailed |-> FALSE,
           res |-> {Response(op, 202, [ success |-> TRUE,
                                        message |-> "You will receive a reset link" ])} ]
    ELSE
        [ users |-> [store EXCEPT ![id] = issueResetToken(store[id], resetToken, now)],
          issuedTo |-> id,
          mailed |-> mailOk,
          res |-> IF mailOk
                  THEN {Response(op, 200, [ success |-> TRUE,
                                            message |-> "Reset link sent successfully" ])}
                  ELSE handleServerErrorOutcomes(op) ]

\* The requestPasswordReset of src/unnamed/part_004, another revision of the
\* handler: the used flag is not written, no mail is sent and the token is
\* returned in the response.
issueResetTokenRevision(user, resetToken, now) ==
    [user EXCEPT !.resetPasswordToken = resetToken,
                 !.resetPasswordExpires = now + 3600000]

requestPasswordResetRevision(store, now, email, resetToken) ==
    LET op == "requestPasswordReset"
        id == findOneByEmail(store, email)
    IN
    IF email = Empty
    THEN [ users |-> store, issuedTo |-> NotFound, mailed |-> FALSE,
           res |-> {Response(op, 400, [message |-> "Email is required"])} ]
    ELSE IF id = NotFound
    THEN [ users |-> store, issuedTo |-> NotFound, mailed |-> FALSE,
           res |-> {Response(op, 202, [ success |-> TRUE,
                                        message |-> "You will receive a reset link" ])} ]
    ELSE
        [ users |-> [store EXCEPT ![id] = issueResetTokenRevision(store[id], resetToken, now)],
          issuedTo |-> id,
          mailed |-> FALSE,
          res |-> {Response(op, 200, [ success |-> TRUE,
                                       message |-> "Reset link sent successfully",
                                       token |-> resetToken ])} ]

\* resendResetToken(req, res): a rejected sendMail is caught and logged
resendResetToken(store, now, email, resetToken, mailOk) ==
    LET op == "resendResetToken"
        id == findOneByEmail(store, email)
    IN
    IF email = Empty
    THEN [ users |-> store, issuedTo |-> NotFound, mailed |-> FALSE,
           res |-> {Response(op, 400, [message |-> "Email is required"])} ]
    ELSE IF id = NotFound
    THEN [ users |-> store, issuedTo |-> NotFound, mailed |-> FALSE,
           res |-> {Response(op, 202,
                       [ success |-> TRUE,
                         message |-> "You will receive a reset link",
                         note |-> "For security reasons, we do not reveal if the email exists" ])} ]
    ELSE
        [ users |-> [store EXCEPT ![id] = issueResetToken(store[id], resetToken, now)],
          issuedTo |-> id,
          mailed |-> mailOk,
          res |-> {Response(op, 200,
                      [ success |-> TRUE,
                        message |-> "Nuevo enlace de restablecimiento enviado correctamente" ])} ]

\* validateResetToken(req, res) with req.params.token = token
validateResetToken(store, now, token) ==
    LET op == "validateResetToken"
        id == findOneByResetToken(store, token)
    IN
    IF token = Undefined
    THEN Response(op, 400, [ message |-> "Token is required", valid |-> FALSE,
                             errorType |-> "missing_token" ])
    ELSE IF id = NotFound
    THEN Response(op, 400, [ message |-> "Enlace invalido o caducado", valid |-> FALSE,
                             errorType |-> "invalid_token", canResend |-> FALSE ])
    ELSE IF store[id].resetPasswordUsed
    THEN Response(op, 400, [ message |-> "Este enlace ya fue utilizado", valid |-> FALSE,
                             errorType |-> "token_used", canResend |-> TRUE,
                             email |-> store[id].email ])
    ELSE IF isExpired(now, store[id].resetPasswordExpires)
    THEN Response(op, 400, [ message |-> "Enlace expirado", valid |-> FALSE,
                             errorType |-> "token_expired", canResend |-> TRUE,
                             email |-> store[id].email ])
    ELSE Response(op, 200, [ message |-> "Token is valid", valid |-> TRUE,
                             email |-> store[id].email,
                             expiresAt |-> store[id].resetPasswordExpires ])

\* faulty variant: the new hash is assigned and saved before the used and
\* expiry checks
resetPassword_SavesBeforeChecks(store, now, token, newPassword) ==
    LET op == "resetPassword"
        id == findOneByResetToken(store, token)
        saved == IF id = NotFound THEN store
                 ELSE [store EXCEPT ![id].password = bcryptHash(newPassword)]
        reject(s, message) ==
            [ users |-> s, consumedBy |-> NotFound,
              res |-> Response(op, 400, [message |-> message]) ]
    IN
    IF token = Undefined \/ newPassword = Empty
    THEN reject(store, "Token and new password are required")
    ELSE IF Len(newPassword) < 8
    THEN reject(store, "Password must be at least 8 characters long")
    ELSE IF ~passwordRegexTest(newPassword)
    THEN reject(store, "Password must contain at least one uppercase letter, one lowercase letter, and one number.")
    ELSE IF id = NotFound
    THEN reject(store, "Invalid reset token")
    ELSE IF store[id].resetPasswordUsed
    THEN reject(saved, "This reset link has already been used")
    ELSE IF isExpired(now, store[id].resetPasswordExpires)
    THEN reject(saved, "Reset token has expired")
    ELSE
        [ users |-> [store EXCEPT ![id] = consumeResetToken(store[id], bcryptHash(newPassword))],
          consumedBy |-> id,
          res |-> Response(op, 200, [ success |-> TRUE,
                                      message |-> "Password reset successfully",
                                      redirectTo |-> "/login",
                                      redirectDelay |-> 500 ]) ]

\* resetPassword(req, res) with req.body = {token, newPassword}
resetPassword(store, now, token, newPassword) ==
    LET op == "resetPassword"
        id == findOneByResetToken(store, token)
        keep(message) ==
            [ users |-> store, consumedBy |-> NotFound,
              res |-> Response(op, 400, [message |-> message]) ]
    IN
    IF token = Undefined \/ newPassword = Empty
    THEN keep("Token and new password are required")
    ELSE IF Len(newPassword) < 8
    THEN keep("Password must be at least 8 characters long")
    ELSE IF ~passwordRegexTest(newPassword)
    THEN keep("Password must contain at least one uppercase letter, one lowercase letter, and one number.")
    ELSE IF id = NotFound
    THEN keep("Invalid reset token")
    ELSE IF store[id].resetPasswordUsed
    THEN keep("This reset link has already been used")
    ELSE IF isExpired(now, store[id].resetPasswordExpires)
    THEN keep("Reset token has expired")
    ELSE
        [ users |-> [store EXCEPT ![id] = consumeResetToken(store[id], bcryptHash(newPassword))],
          consumedBy |-> id,
          res |-> Response(op, 200, [ success |-> TRUE,
                                      message |-> "Password reset successfully",
                                      redirectTo |-> "/login",
                                      redirectDelay |-> 500 ]) ]

---------------------------------------------------------------------------
(* The login limiter *)

MAX_ATTEMPTS == 5
WINDOW_TIME == 10 * 60 * 1000

\* attempts[ip] is undefined
NoRecord == [count |-> 0, firstAttempt |-> 0]

\* faulty variant: the window is still open when exactly WINDOW_TIME has passed
withinWindow_Inclusive(diff) == diff <= 10 * 60 * 1000

\* diff < WINDOW_TIME
withinWindow(diff) == diff < WINDOW_TIME

\* faulty variant: the attempt that reaches MAX_ATTEMPTS is already denied
exceeded_OffByOne(count) == count >= 5

\* attempts[ip].count > MAX_ATTEMPTS
exceeded(count) == count > MAX_ATTEMPTS

\* faulty variant: an attempt that is denied is not counted
loginLimiter_CountsPassedOnly(map, ip, now) ==
    IF map[ip] = NoRecord \/ ~withinWindow(now - map[ip].firstAttempt)
    THEN [ attempts |-> [map EXCEPT ![ip] = [count |-> 1, firstAttempt |-> now]],
           next |-> TRUE ]
    ELSE IF exceeded(map[ip].count + 1)
    THEN [ attempts |-> map, next |-> FALSE ]
    ELSE [ attempts |-> [map EXCEPT ![ip].count = @ + 1], next |-> TRUE ]

\* faulty variant: one record is kept for all the addresses
loginLimiter_OneRecordForAll(map, ip, now) ==
    LET rec == IF map[ip] = NoRecord \/ ~withinWindow(now - map[ip].firstAttempt)
               THEN [count |-> 1, firstAttempt |-> now]
               ELSE [map[ip] EXCEPT !.count = @ + 1]
    IN  [ attempts |-> [a \in DOMAIN map |-> rec],
          next |-> ~exceeded(rec.count) ]

\* loginLimiter(req, res, next) with req.ip = ip: the new map and whether
\* next() is called (otherwise the 429 is sent)
loginLimiter(map, ip, now) ==
    IF map[ip] = NoRecord
    THEN [ attempts |-> [map EXCEPT ![ip] = [count |-> 1, firstAttempt |-> now]],
           next |-> TRUE ]
    ELSE
        LET diff == now - map[ip].firstAttempt
        IN  IF withinWindow(diff)
            THEN [ attempts |-> [map EXCEPT ![ip].count = @ + 1],
                   next |-> ~exceeded(map[ip].count + 1) ]
            ELSE [ attempts |-> [map EXCEPT ![ip] = [count |-> 1, firstAttempt |-> now]],
                   next |-> TRUE ]

\* faulty variant: the body tells how many attempts are left
TooManyRequests_WithRemaining ==
    Response("loginLimiter", 429, [message |-> "Too many requests", remaining |-> 0])

TooManyRequests == Response("loginLimiter", 429, [message |-> "Too many requests"])

---------------------------------------------------------------------------
(* Session tokens (jsonwebtoken) *)

\* process.env.JWT_SECRET, and a secret the server does not hold
JWT_SECRET == "JWT_SECRET"
OtherSecret == "another secret"

\* faulty variant: one hour
JWT_EXPIRES_IN_OneHour == 60 * 60

\* expiresIn: '2h', in seconds
JWT_EXPIRES_IN == 2 * 60 * 60

\* faulty variant: the payload's id is read from a field the document lacks
jwtSign_NoSubject(id, email, secret, now) ==
    [ id |-> 0, email |-> email,
      iat |-> now \div 1000,
      exp |-> (now \div 1000) + 2 * 60 * 60,
      sig |-> secret ]

\* jwt.sign({id, email}, secret, {expiresIn: '2h'}): iat and exp are seconds
jwtSign(id, email, secret, now) ==
    [ id |-> id, email |-> email,
      iat |-> now \div 1000,
      exp |-> (now \div 1000) + JWT_EXPIRES_IN,
      sig |-> secret ]

\* a string that is not a JWT at all
MalformedToken == [id |-> 0, email |-> Empty, iat |-> 0, exp |-> 0, sig |-> "malformed"]

\* no credentials: split(' ')[1] is undefined
NoCredentials == [id |-> 0, email |-> Empty, iat |-> 0, exp |-> 0, sig |-> "undefined"]

\* jwt.verify(token, secret): the name of the error thrown, or "ok".  The
\* signature is checked before the expiry.
jwtVerify(token, secret, now) ==
    IF token = MalformedToken THEN "JsonWebTokenError"
    ELSE IF token.sig # secret THEN "JsonWebTokenError"
    ELSE IF (now \div 1000) >= token.exp THEN "TokenExpiredError"
    ELSE "ok"

---------------------------------------------------------------------------
(* Login *)

\* faulty variant: the blocked flag is not looked at
loginBlocked_Skipped(user) == FALSE

\* if (user.isBlocked) in login
loginBlocked(user) == user.isBlocked

\* login(req, res) with req.body = {email, password}: the response and the
\* session token it carries (NoCredentials when none is issued)
login(store, now, email, password) ==
    LET op == "login"
        id == findOneByEmail(store, email)
        deny(status, body) ==
            [ res |-> Response(op, status, body), token |-> NoCredentials ]
    IN
    IF id = NotFound
    THEN deny(401, [message |-> "Invalid user"])
    ELSE IF ~bcryptCompare(password, store[id].password)
    THEN deny(401, [message |-> "Invalid password"])
    ELSE IF loginBlocked(store[id])
    THEN deny(423, [mesagge |-> "Account temporarily blocked"])
    ELSE
        LET token == jwtSign(id, store[id].email, JWT_SECRET, now)
        IN  [ res |-> Response(op, 200,
                         [ message |-> "Succesful login",
                           token |-> token,
                           user |-> [ id |-> id,
                                      name |-> store[id].name,
                                      email |-> store[id].email ] ]),
              token |-> token ]

---------------------------------------------------------------------------
(* The account guard *)

\* req.user was not set
NoUser == [id |-> 0, email |-> Empty, name |-> Empty]

\* an Authorization header: absent, or the words it splits into at ' '
NoHeader == [present |-> FALSE, scheme |-> "", credentials |-> NoCredentials]
Header(scheme, credentials) ==
    [present |-> TRUE, scheme |-> scheme, credentials |-> credentials]

\* authHeader && authHeader.split(' ')[1]
headerToken(authHeader) ==
    IF authHeader.present THEN authHeader.credentials ELSE NoCredentials

\* the body shared by the guard's rejections
guardBody(message, errorType) ==
    [ success |-> FALSE, message |-> message, errorType |-> errorType,
      action |-> "redirect_to_login", redirectTo |-> "/login" ]

\* faulty variant: every error thrown by jwt.verify is reported as an invalid token
jwtErrorResponse_AlwaysInvalid(name) ==
    Response("authenticateToken", 401,
        [ success |-> FALSE, message |-> "Invalid token",
          errorType |-> "invalid_token", action |-> "redirect_to_login",
          redirectTo |-> "/login" ])

\* the catch block's answer to an error thrown by jwt.verify
jwtErrorResponse(name) ==
    IF name = "JsonWebTokenError"
    THEN Response("authenticateToken", 401, guardBody("Invalid token", "invalid_token"))
    ELSE Response("authenticateToken", 401,
            [ success |-> FALSE, message |-> "Login session expired",
              errorType |-> "token_expired", action |-> "redirect_to_login",
              redirectTo |-> "/login", redirectDelay |-> 1000 ])

\* faulty variant: the blocked flag is not looked at
guardBlocked_Skipped(user) == FALSE

\* if (user.isBlocked) in authenticateToken
guardBlocked(user) == user.isBlocked

\* faulty variant: the whole document is attached
attachedUser_WholeDocument(id, user) ==
    [ id |-> id, email |-> user.email, name |-> user.name,
      password |-> user.password,
      resetPasswordToken |-> user.resetPasswordToken ]

\* req.user = { id: user._id, email: user.email, name: user.name }
attachedUser(id, user) ==
    [ id |-> id, email |-> user.email, name |-> user.name ]

\* authenticateToken(req, res, next): the response (none when next() is
\* called), req.user and whether next() is called
authenticateToken(store, now, authHeader) ==
    LET op == "authenticateToken"
        token == headerToken(authHeader)
        verdict == jwtVerify(token, JWT_SECRET, now)
        id == findById(store, token.id)
        reject(r) == [ res |-> r, user |-> NoUser, next |-> FALSE ]
    IN
    IF token = NoCredentials
    THEN reject(Response(op, 401, guardBody("Access Token Required", "missing_token")))
    ELSE IF verdict # "ok"
    THEN reject(jwtErrorResponse(verdict))
    ELSE IF id = NotFound
    THEN reject(Response(op, 401, guardBody("User not found", "user_not_found")))
    ELSE IF guardBlocked(store[id])
    THEN reject(Response(op, 423, guardBody("Account temporarily blocked", "account_blocked")))
    ELSE [ res |-> Response(op, NoResponseStatus, [none |-> TRUE]),
           user |-> attachedUser(id, store[id]),
           next |-> TRUE ]

---------------------------------------------------------------------------
(* Requests in flight *)

\* the number of requests the server handles at one time
MaxRequests == 6

Requests == 1..MaxRequests

NoResponse == Response("none", NoResponseStatus, [none |-> TRUE])

\* the place of a document that was not loaded
NoDocument == [none |-> TRUE]

\* a request slot that handles nothing
Idle == [ op |-> "idle", pc |-> "idle", body |-> [none |-> TRUE],
          id |-> NotFound, loaded |-> NoDocument, doc |-> NoDocument,
          res |-> NoResponse ]

---------------------------------------------------------------------------
(* Initial state: an empty collection, an empty attempts map, time 0 *)

Addresses == {"10.0.0.1", "10.0.0.2"}

\* history of one address: the first attempt of its current window, the
\* number of attempts in the window, how many of them were passed on to the
\* login handler, and whether the window before it saw a denied attempt
NoWindow == [start |-> 0, n |-> 0, passed |-> 0, prevDenied |-> FALSE]

Init ==
    /\ users = <<>>
    /\ clock = 0
    /\ attempts = [ip \in Addresses |-> NoRecord]
    /\ jwts = {}
    /\ tokenCount = 0
    /\ res = NoResponse
    /\ reqUser = NoUser
    /\ nextCalled = FALSE
    /\ consumed = {}
    /\ superseded = {}
    /\ win = [ip \in Addresses |-> NoWindow]
    /\ accepted = <<>>
    /\ hist = [op |-> "init"]
    /\ inflight = [p \in Requests |-> Idle]
    /\ loggedOut = {}

---------------------------------------------------------------------------
(* Steps *)

\* POST /register
Register(b) ==
    LET r == register(users, b)
    IN  /\ Len(r.users) <= MaxUsers
        /\ users' = r.users
        /\ res' = r.res
        /\ hist' = [op |-> "register", body |-> b]
        /\ reqUser' = NoUser
        /\ nextCalled' = FALSE
        /\ accepted' = IF r.res.status = 201 THEN Append(accepted, b.password)
                       ELSE accepted
        /\ UNCHANGED <<inflight, loggedOut>>
        /\ UNCHANGED <<clock, attempts, jwts, tokenCount, consumed,
                       superseded, win>>

\* the effects shared by POST /request-reset and POST /resend-reset
Issue(r, op, email, mailOk) ==
    /\ users' = r.users
    /\ res' \in r.res
    /\ tokenCount' = IF r.issuedTo = NotFound THEN tokenCount ELSE tokenCount + 1
    /\ superseded' =
          IF r.issuedTo # NotFound
             /\ users[r.issuedTo].resetPasswordToken # Undefined
          THEN superseded \cup {users[r.issuedTo].resetPasswordToken}
          ELSE superseded
    /\ hist' = [ op |-> op, email |-> email, mailOk |-> mailOk,
                 user |-> r.issuedTo,
                 issued |-> IF r.issuedTo = NotFound THEN Undefined
                            ELSE tokenCount + 1 ]
    /\ reqUser' = NoUser
    /\ nextCalled' = FALSE
    /\ UNCHANGED <<inflight, loggedOut>>
    /\ UNCHANGED <<clock, attempts, jwts, consumed, win, accepted>>

\* POST /request-reset; crypto.randomBytes returns a value never seen before
RequestPasswordReset(email, mailOk) ==
    /\ tokenCount < MaxTokens
    /\ Issue(requestPasswordReset(users, clock, email, tokenCount + 1, mailOk),
             "requestPasswordReset", email, mailOk)

\* POST /request-reset served by the revision of src/unnamed/part_004
RequestPasswordResetRevision(email) ==
    /\ tokenCount < MaxTokens
    /\ Issue(requestPasswordResetRevision(users, clock, email, tokenCount + 1),
             "requestPasswordReset", email, TRUE)

\* POST /resend-reset
ResendResetToken(email, mailOk) ==
    /\ tokenCount < MaxTokens
    /\ Issue(resendResetToken(users, clock, email, tokenCount + 1, mailOk),
             "resendResetToken", email, mailOk)

\* GET /validate-token/:token
ValidateResetToken(token) ==
    /\ res' = validateResetToken(users, clock, token)
    /\ hist' = [op |-> "validateResetToken", token |-> token]
    /\ reqUser' = NoUser
    /\ nextCalled' = FALSE
    /\ UNCHANGED <<inflight, loggedOut>>
    /\ UNCHANGED <<users, clock, attempts, jwts, tokenCount, consumed,
                   superseded, win, accepted>>

\* POST /reset-password
ResetPassword(token, newPassword) ==
    LET r == resetPassword(users, clock, token, newPassword)
    IN  /\ users' = r.users
        /\ res' = r.res
        /\ consumed' = IF r.consumedBy = NotFound THEN consumed
                       ELSE consumed \cup {token}
        /\ hist' = [ op |-> "resetPassword", token |-> token,
                     newPassword |-> newPassword, user |-> r.consumedBy ]
        /\ reqUser' = NoUser
        /\ nextCalled' = FALSE
        /\ accepted' = IF r.consumedBy = NotFound THEN accepted
                       ELSE [accepted EXCEPT ![r.consumedBy] = newPassword]
        /\ UNCHANGED <<inflight, loggedOut>>
        /\ UNCHANGED <<clock, attempts, jwts, tokenCount, superseded, win>>

\* the window history after one more attempt at time now
Attempt(w, now, passedOn) ==
    IF w.n = 0 \/ now - w.start >= 600000
    THEN [ start |-> now, n |-> 1,
           passed |-> IF passedOn THEN 1 ELSE 0,
           prevDenied |-> w.n > w.passed ]
    ELSE [ w EXCEPT !.n = @ + 1,
                    !.passed = IF passedOn THEN @ + 1 ELSE @ ]

\* POST /login: loginLimiter, then login when the limiter calls next()
LoginRoute(ip, email, password) ==
    LET lim == loginLimiter(attempts, ip, clock)
        r == login(users, clock, email, password)
    IN  /\ lim.attempts[ip].count <= MaxCount
        /\ attempts' = lim.attempts
        /\ nextCalled' = lim.next
        /\ res' = IF lim.next THEN r.res ELSE TooManyRequests
        /\ jwts' = IF lim.next /\ r.token # NoCredentials
                      /\ Cardinality(jwts \cup {r.token}) <= MaxJwts
                   THEN jwts \cup {r.token} ELSE jwts
        /\ win' = [win EXCEPT ![ip] = Attempt(@, clock, lim.next)]
        /\ hist' = [op |-> "login", ip |-> ip, email |-> email,
                    password |-> password]
        /\ reqUser' = NoUser
        /\ UNCHANGED <<inflight, loggedOut>>
        /\ UNCHANGED <<users, clock, tokenCount, consumed, superseded,
                       accepted>>

\* a protected route's first middleware
AuthenticateToken(authHeader) ==
    LET r == authenticateToken(users, clock, authHeader)
    IN  /\ res' = r.res
        /\ reqUser' = r.user
        /\ nextCalled' = r.next
        /\ hist' = [op |-> "authenticateToken", header |-> authHeader]
        /\ UNCHANGED <<inflight, loggedOut>>
        /\ UNCHANGED <<users, clock, attempts, jwts, tokenCount,
                       consumed, superseded, win, accepted>>

\* PUT /update: authenticateToken, then update when the guard calls next()
UpdateRoute(authHeader, b) ==
    LET g == authenticateToken(users, clock, authHeader)
        r == update(users, g.user.id, b)
        changed == g.next /\ r.res.status = 200 /\ b.password # Empty
    IN  /\ reqUser' = g.user
        /\ nextCalled' = g.next
        /\ users' = IF g.next THEN r.users ELSE users
        /\ res' = IF g.next THEN r.res ELSE g.res
        /\ accepted' = IF changed THEN [accepted EXCEPT ![g.user.id] = b.password]
                       ELSE accepted
        /\ hist' = [op |-> "update", header |-> authHeader, body |-> b]
        /\ UNCHANGED <<inflight, loggedOut>>
        /\ UNCHANGED <<clock, attempts, jwts, tokenCount, consumed,
                       superseded, win>>

\* req.user.userId: the field deleteUser reads from the attached identity
\* (undefined when the identity has no field of that name)
userId(user) == IF "userId" \in DOMAIN user THEN user.userId ELSE Undefined

\* User.findByIdAndDelete(id): the store without the record of that id
findByIdAndDelete(store, id) == [i \in DOMAIN store \ {id} |-> store[i]]

\* deleteUser(req, res) with req.user = user, answered at time now: the new
\* store and the answer.  The picture kept by the image host and the task
\* records are outside the user store.
deleteUser(store, user, now) ==
    LET id == findById(store, userId(user))
    IN  IF id = NotFound
        THEN [ users |-> store,
               res |-> Response("deleteUser", 404,
                                [ success |-> FALSE, message |-> "User not found" ]) ]
        ELSE [ users |-> findByIdAndDelete(store, id),
               res |-> Response("deleteUser", 200,
                                [ success |-> TRUE,
                                  message |-> "Account deleted successfully. All associated data has been removed.",
                                  timestamp |-> now ]) ]

\* deleteUser behind the guard: authenticateToken, then deleteUser when the
\* guard calls next()
DeleteRoute(authHeader) ==
    LET g == authenticateToken(users, clock, authHeader)
        r == deleteUser(users, g.user, clock)
    IN  /\ reqUser' = g.user
        /\ nextCalled' = g.next
        /\ users' = IF g.next THEN r.users ELSE users
        /\ res' = IF g.next THEN r.res ELSE g.res
        /\ hist' = [op |-> "deleteUser", header |-> authHeader]
        /\ UNCHANGED <<inflight, loggedOut>>
        /\ UNCHANGED <<clock, attempts, jwts, tokenCount, consumed,
                       superseded, win, accepted>>

\* logout(req, res): the answer, nothing else
logout ==
    Response("logout", 200, [ success |-> TRUE, message |-> "Logout successful",
                              redirectTo |-> "/login", redirectDelay |-> 500 ])

\* POST /logout: authenticateToken, then logout when the guard calls next()
LogoutRoute(authHeader) ==
    LET g == authenticateToken(users, clock, authHeader)
    IN  /\ reqUser' = g.user
        /\ nextCalled' = g.next
        /\ res' = IF g.next THEN logout ELSE g.res
        /\ loggedOut' = IF g.next THEN loggedOut \cup {headerToken(authHeader)}
                        ELSE loggedOut
        /\ hist' = [op |-> "logout", header |-> authHeader]
        /\ UNCHANGED inflight
        /\ UNCHANGED <<users, clock, attempts, jwts, tokenCount, consumed,
                       superseded, win, accepted>>

\* A request to a route without middleware that passes the handler's input
\* checks and whose first store call (findOne) rejects: nothing is written
HandlerStoreFails(op) ==
    /\ res' \in catchOutcomes(op)
    /\ hist' = [op |-> op, storeFails |-> TRUE]
    /\ reqUser' = NoUser
    /\ nextCalled' = FALSE
    /\ UNCHANGED <<inflight, loggedOut>>
    /\ UNCHANGED <<users, clock, attempts, jwts, tokenCount, consumed,
                   superseded, win, accepted>>

\* POST /login when login's User.findOne rejects
LoginStoreFails(ip) ==
    LET lim == loginLimiter(attempts, ip, clock)
    IN  /\ lim.attempts[ip].count <= MaxCount
        /\ attempts' = lim.attempts
        /\ nextCalled' = lim.next
        /\ IF lim.next THEN res' \in catchOutcomes("login")
                       ELSE res' = TooManyRequests
        /\ win' = [win EXCEPT ![ip] = Attempt(@, clock, lim.next)]
        /\ hist' = [op |-> "login", ip |-> ip, storeFails |-> lim.next]
        /\ reqUser' = NoUser
        /\ UNCHANGED <<inflight, loggedOut>>
        /\ UNCHANGED <<users, clock, jwts, tokenCount, consumed,
                       superseded, accepted>>

\* PUT /update when the guard passes and update's User.findById rejects
UpdateStoreFails(authHeader) ==
    LET g == authenticateToken(users, clock, authHeader)
    IN  /\ reqUser' = g.user
        /\ nextCalled' = g.next
        /\ IF g.next THEN res' \in catchOutcomes("update")
                     ELSE res' = g.res
        /\ hist' = [op |-> "update", header |-> authHeader, storeFails |-> g.next]
        /\ UNCHANGED <<inflight, loggedOut>>
        /\ UNCHANGED <<users, clock, attempts, jwts, tokenCount, consumed,
                       superseded, win, accepted>>

\* isBlocked is written by no handler: an operator sets it in the collection
SetBlocked(id, blocked) ==
    /\ id \in DOMAIN users
    /\ users[id].isBlocked # blocked
    /\ users' = [users EXCEPT ![id].isBlocked = blocked]
    /\ hist' = [op |-> "setBlocked"]
    /\ UNCHANGED <<inflight, loggedOut>>
    /\ UNCHANGED <<clock, attempts, jwts, tokenCount, res, reqUser,
                   nextCalled, consumed, superseded, win, accepted>>

\* time passes
Tick(d, maxTicks) ==
    /\ clock + d <= maxTicks * d
    /\ clock' = clock + d
    /\ hist' = [op |-> "tick"]
    /\ UNCHANGED <<inflight, loggedOut>>
    /\ UNCHANGED <<users, attempts, jwts, tokenCount, res, reqUser,
                   nextCalled, consumed, superseded, win, accepted>>

---------------------------------------------------------------------------
(* Handlers in flight.  A handler runs without interruption from one await
   to the next, so a step is the store call it awaits together with the
   code that follows up to the next such call.  A handler that loaded a
   document keeps working on that copy; user.save() writes the paths the
   handler changed on its copy, whatever the store holds by then. *)

Request(op, pc, body, id, loaded, doc, r) ==
    [ op |-> op, pc |-> pc, body |-> body, id |-> id, loaded |-> loaded,
      doc |-> doc, res |-> r ]

\* faulty variant: the save is dropped when the stored document is not the
\* loaded one any more
saveModified_FirstWriterWins(stored, loaded, doc) ==
    IF stored = loaded THEN doc ELSE stored

\* document.save() of a loaded document: the modified paths are written,
\* the other paths of the stored document stay
saveModified(stored, loaded, doc) ==
    [f \in DOMAIN stored |-> IF doc[f] # loaded[f] THEN doc[f] ELSE stored[f]]

\* register up to `await newUser.save()`: the checks, the lookup and the
\* new document
RegisterReads(p, b) ==
    LET r == register(users, b)
        created == r.res.status = 201
        pending == {q \in Requests : inflight[q].op = "register"
                                     /\ inflight[q].pc = "save"}
    IN  /\ inflight[p] = Idle
        /\ created => Len(users) + Cardinality(pending) < MaxUsers
        /\ inflight' = [inflight EXCEPT ![p] =
              IF created
              THEN Request("register", "save", b, NotFound, NoDocument,
                           r.users[Len(r.users)], r.res)
              ELSE Request("register", "done", b, NotFound, NoDocument,
                           NoDocument, r.res)]
        /\ res' = IF created THEN res ELSE r.res
        /\ hist' = [op |-> "register", request |-> p, step |-> "findOne"]
        /\ UNCHANGED <<users, clock, attempts, jwts, tokenCount, reqUser,
                       nextCalled, consumed, superseded, win, accepted,
                       loggedOut>>

\* register from `await newUser.save()` on: the insert and the 201
RegisterSaves(p) ==
    LET r == [inflight[p].res EXCEPT !.body.userId = Len(users) + 1]
    IN  /\ inflight[p].op = "register"
        /\ inflight[p].pc = "save"
        /\ users' = Append(users, inflight[p].doc)
        /\ accepted' = Append(accepted, inflight[p].body.password)
        /\ inflight' = [inflight EXCEPT ![p].pc = "done",
                                        ![p].id = Len(users) + 1,
                                        ![p].res = r]
        /\ res' = r
        /\ hist' = [op |-> "register", request |-> p, step |-> "save"]
        /\ UNCHANGED <<clock, attempts, jwts, tokenCount, reqUser,
                       nextCalled, consumed, superseded, win, loggedOut>>

\* requestPasswordReset / resendResetToken up to `await user.save()`: the
\* lookup, the new token and the three assignments on the loaded document
IssueReads(p, op, email, mailOk) ==
    LET r == IF op = "requestPasswordReset"
             THEN requestPasswordReset(users, clock, email, tokenCount + 1, mailOk)
             ELSE resendResetToken(users, clock, email, tokenCount + 1, mailOk)
        id == r.issuedTo
    IN  /\ inflight[p] = Idle
        /\ tokenCount < MaxTokens
        /\ \E answer \in r.res :
              /\ inflight' = [inflight EXCEPT ![p] =
                    IF id # NotFound
                    THEN Request(op, "save", [email |-> email], id, users[id],
                                 r.users[id], answer)
                    ELSE Request(op, "done", [email |-> email], NotFound,
                                 NoDocument, NoDocument, answer)]
              /\ res' = IF id # NotFound THEN res ELSE answer
        /\ tokenCount' = IF id # NotFound THEN tokenCount + 1 ELSE tokenCount
        /\ hist' = [op |-> op, request |-> p, step |-> "findOne"]
        /\ UNCHANGED <<users, clock, attempts, jwts, reqUser, nextCalled,
                       consumed, superseded, win, accepted, loggedOut>>

\* requestPasswordReset / resendResetToken from `await user.save()` on: the
\* write, the mail and the answer
IssueSaves(p) ==
    LET id == inflight[p].id
        old == users[id].resetPasswordToken
    IN  /\ inflight[p].op \in {"requestPasswordReset", "resendResetToken"}
        /\ inflight[p].pc = "save"
        /\ users' = [users EXCEPT ![id] =
                        saveModified(@, inflight[p].loaded, inflight[p].doc)]
        /\ superseded' =
              IF old \notin {Undefined, inflight[p].doc.resetPasswordToken}
              THEN superseded \cup {old} ELSE superseded
        /\ inflight' = [inflight EXCEPT ![p].pc = "done"]
        /\ res' = inflight[p].res
        /\ hist' = [op |-> inflight[p].op, request |-> p, step |-> "save"]
        /\ UNCHANGED <<clock, attempts, jwts, tokenCount, reqUser,
                       nextCalled, consumed, win, accepted, loggedOut>>

\* resetPassword up to `await user.save()`: the checks of the body, the
\* lookup, the checks of the loaded document, the hash and the four
\* assignments
ResetReads(p, token, newPassword) ==
    LET r == resetPassword(users, clock, token, newPassword)
        id == r.consumedBy
        b == [token |-> token, newPassword |-> newPassword]
    IN  /\ inflight[p] = Idle
        /\ inflight' = [inflight EXCEPT ![p] =
              IF id # NotFound
              THEN Request("resetPassword", "save", b, id, users[id],
                           r.users[id], r.res)
              ELSE Request("resetPassword", "done", b, NotFound, NoDocument,
                           NoDocument, r.res)]
        /\ res' = IF id # NotFound THEN res ELSE r.res
        /\ hist' = [op |-> "resetPassword", request |-> p, step |-> "findOne"]
        /\ UNCHANGED <<users, clock, attempts, jwts, tokenCount, reqUser,
                       nextCalled, consumed, superseded, win, accepted,
                       loggedOut>>

\* resetPassword from `await user.save()` on: the write and the 200
ResetSaves(p) ==
    LET id == inflight[p].id
    IN  /\ inflight[p].op = "resetPassword"
        /\ inflight[p].pc = "save"
        /\ users' = [users EXCEPT ![id] =
                        saveModified(@, inflight[p].loaded, inflight[p].doc)]
        /\ consumed' = consumed \cup {inflight[p].body.token}
        /\ accepted' = [accepted EXCEPT ![id] = inflight[p].body.newPassword]
        /\ inflight' = [inflight EXCEPT ![p].pc = "done"]
        /\ res' = inflight[p].res
        /\ hist' = [op |-> "resetPassword", request |-> p, step |-> "save"]
        /\ UNCHANGED <<clock, attempts, jwts, tokenCount, reqUser,
                       nextCalled, superseded, win, loggedOut>>

\* POST /login, the middleware: loginLimiter has no await, it runs from its
\* first line to next() or to the 429 without another request in between
LoginArrives(p, ip, email, password) ==
    LET lim == loginLimiter(attempts, ip, clock)
        b == [ip |-> ip, email |-> email, password |-> password]
    IN  /\ inflight[p] = Idle
        /\ attempts' = lim.attempts
        /\ nextCalled' = lim.next
        /\ inflight' = [inflight EXCEPT ![p] =
              IF lim.next
              THEN Request("login", "findOne", b, NotFound, NoDocument,
                           NoDocument, NoResponse)
              ELSE Request("login", "done", b, NotFound, NoDocument,
                           NoDocument, TooManyRequests)]
        /\ res' = IF lim.next THEN res ELSE TooManyRequests
        /\ win' = [win EXCEPT ![ip] = Attempt(@, clock, lim.next)]
        /\ hist' = [op |-> "login", request |-> p, step |-> "loginLimiter"]
        /\ UNCHANGED <<users, clock, jwts, tokenCount, reqUser, consumed,
                       superseded, accepted, loggedOut>>

\* POST /login, the handler that next() invoked: the lookup, the
\* comparison and the answer
LoginAnswers(p) ==
    LET b == inflight[p].body
        r == login(users, clock, b.email, b.password)
    IN  /\ inflight[p].op = "login"
        /\ inflight[p].pc = "findOne"
        /\ inflight' = [inflight EXCEPT ![p].pc = "done", ![p].res = r.res]
        /\ res' = r.res
        /\ jwts' = IF r.token # NoCredentials
                      /\ Cardinality(jwts \cup {r.token}) <= MaxJwts
                   THEN jwts \cup {r.token} ELSE jwts
        /\ hist' = [op |-> "login", request |-> p, step |-> "findOne"]
        /\ UNCHANGED <<users, clock, attempts, tokenCount, reqUser,
                       nextCalled, consumed, superseded, win, accepted,
                       loggedOut>>

\* the answer of a request went out; its slot is free again
Completes(p) ==
    /\ inflight[p].pc = "done"
    /\ inflight' = [inflight EXCEPT ![p] = Idle]
    /\ hist' = [op |-> "respond", request |-> p]
    /\ UNCHANGED <<users, clock, attempts, jwts, tokenCount, res, reqUser,
                   nextCalled, consumed, superseded, win, accepted,
                   loggedOut>>

---------------------------------------------------------------------------
(* Specifications *)

RegBody(email, password, passwordCheck, name, age) ==
    [ email |-> email, password |-> password, passwordCheck |-> passwordCheck,
      name |-> name, age |-> age ]

\* a valid registration, and one the validation rejects
ValidBodies(emails) == {RegBody(e, PwAbcdef12, PwAbcdef12, <<"A">>, 20) : e \in emails}
InvalidBodies == { RegBody(EmailB, PwShort, PwShort, <<"A">>, 20),
                   RegBody(EmailB, PwAbcdef12, PwAbcdef12, <<"A">>, 12) }

(* The reset-token lifecycle, over accounts registered under case variants
   of one email; EmailB is never registered.  Time moves in half token
   lifetimes. *)
ResetEmails == {EmailA, EmailAUpper, EmailB, Empty}
ResetPasswords == {PwNewPass12, PwShort}

NextReset ==
    \/ \E b \in ValidBodies({EmailA, EmailAUpper}) \cup InvalidBodies : Register(b)
    \/ \E e \in ResetEmails, m \in BOOLEAN : RequestPasswordReset(e, m)
    \/ \E e \in ResetEmails, m \in BOOLEAN : ResendResetToken(e, m)
    \/ \E t \in 0..MaxTokens : ValidateResetToken(t)
    \/ \E t \in 0..MaxTokens, p \in ResetPasswords : ResetPassword(t, p)
    \/ Tick(RESET_TOKEN_TTL \div 2, MaxTicksReset)

SpecReset == Init /\ [][NextReset]_vars

(* The reset-token lifecycle with POST /request-reset served by the
   revision of src/unnamed/part_004, for one account. *)
NextResetRevision ==
    \/ \E b \in ValidBodies({EmailA}) : Register(b)
    \/ \E e \in {EmailA, EmailB, Empty} : RequestPasswordResetRevision(e)
    \/ \E e \in {EmailA, EmailB}, m \in BOOLEAN : ResendResetToken(e, m)
    \/ \E t \in 0..MaxTokens : ValidateResetToken(t)
    \/ \E t \in 0..MaxTokens, p \in ResetPasswords : ResetPassword(t, p)
    \/ Tick(RESET_TOKEN_TTL \div 2, MaxTicksReset)

SpecResetRevision == Init /\ [][NextResetRevision]_vars

(* Login behind the limiter, from two addresses, for one account that an
   operator may block.  Time moves in half windows. *)
LoginEmails == {EmailA, EmailB}
LoginCredentials ==
    {<<EmailA, PwAbcdef12>>, <<EmailA, PwNewPass12>>, <<EmailB, PwAbcdef12>>}

NextLogin ==
    \/ \E b \in ValidBodies({EmailA}) : Register(b)
    \/ \E i \in 1..MaxUsers, b \in BOOLEAN : SetBlocked(i, b)
    \/ \E ip \in Addresses, c \in LoginCredentials : LoginRoute(ip, c[1], c[2])
    \/ Tick(WINDOW_TIME \div 2, MaxTicksLogin)

SpecLogin == Init /\ [][NextLogin]_vars

(* The account guard, for tokens issued by login and tokens the server
   never issued.  Time moves in half session lifetimes. *)
SessionHeaders ==
    {NoHeader, Header("Bearer", NoCredentials), Header("Bearer", MalformedToken)}
    \cup {Header("Bearer", t) : t \in jwts}
    \cup {Header("Basic", t) : t \in jwts}
    \cup {Header("Bearer", [t EXCEPT !.sig = OtherSecret]) : t \in jwts}

NextAuth ==
    \/ \E b \in ValidBodies({EmailA, EmailB}) : Register(b)
    \/ \E i \in 1..MaxUsers, b \in BOOLEAN : SetBlocked(i, b)
    \/ \E e \in LoginEmails :
          /\ LoginRoute("10.0.0.1", e, PwAbcdef12)
          /\ attempts'["10.0.0.1"].count <= 2
    \/ \E h \in SessionHeaders : AuthenticateToken(h)
    \/ Tick((JWT_EXPIRES_IN * 1000) \div 2, MaxTicksAuth)

SpecAuth == Init /\ [][NextAuth]_vars

(* Accounts whose profile and password change: registration, login, profile
   update behind the guard, and password reset.  The clock stands still. *)
UpdateBody(email, name, age, oldPassword, password) ==
    [ email |-> email, name |-> name, age |-> age,
      oldPassword |-> oldPassword, password |-> password ]

\* "b@x " with a space at its end
EmailBPadded == <<"b", "@", "x", " ">>

UpdateBodies ==
    { UpdateBody(Empty, Empty, NoAge, Empty, Empty),
      UpdateBody(Empty, <<"B">>, NoAge, Empty, Empty),
      UpdateBody(EmailBPadded, Empty, NoAge, Empty, Empty),
      UpdateBody(Empty, <<"B">>, 30, Empty, PwNewPass12),
      UpdateBody(EmailBPadded, <<"B">>, 30, PwNewPass12, PwAbcdef12),
      UpdateBody(Empty, <<"B">>, NoAge, PwAbcdef12, PwAbcdef12),
      UpdateBody(Empty, Empty, 12, PwAbcdef12, PwAbcdef12),
      UpdateBody(Empty, Empty, NoAge, PwAbcdef12, PwNewPass12),
      UpdateBody(Empty, Empty, NoAge, PwAbcdef12, PwShort) }

AccountPasswords == {PwAbcdef12, PwNewPass12}

AccountHeaders == {NoHeader} \cup {Header("Bearer", t) : t \in jwts}

NextAccount ==
    \/ \E b \in ValidBodies({EmailA, EmailB}) : Register(b)
    \/ \E p \in AccountPasswords :
          /\ LoginRoute("10.0.0.1", EmailA, p)
          /\ attempts'["10.0.0.1"].count <= 2
    \/ \E h \in AccountHeaders, b \in UpdateBodies : UpdateRoute(h, b)
    \/ RequestPasswordReset(EmailA, TRUE)
    \/ \E t \in 1..MaxTokens : ResetPassword(t, PwNewPass12)

SpecAccount == Init /\ [][NextAccount]_vars

(* Profiles: registrations and profile updates with ages inside, on the
   edges of and outside [13,122], and with emails that are free, taken, or
   a case variant of a registered one.  One login is made, so one user
   updates.  The clock stands still. *)
ProfileEmails == {EmailA, EmailAUpper, EmailB}

ProfileRegBodies ==
    { RegBody(EmailA, PwAbcdef12, PwAbcdef12, <<"A">>, a) : a \in {0, 12, 13, 123} }
    \cup ValidBodies({EmailAUpper, EmailB})

ProfileUpdateBodies ==
    { UpdateBody(Empty, Empty, a, Empty, Empty) : a \in {NoAge, 0, 12, 122, 123} }
    \cup { UpdateBody(e, Empty, a, Empty, Empty) :
             e \in ProfileEmails, a \in {NoAge, 12} }

NextProfile ==
    \/ \E b \in ProfileRegBodies : Register(b)
    \/ \E e \in ProfileEmails :
          /\ LoginRoute("10.0.0.1", e, PwAbcdef12)
          /\ attempts'["10.0.0.1"].count <= 1
    \/ \E h \in AccountHeaders, b \in ProfileUpdateBodies : UpdateRoute(h, b)

SpecProfile == Init /\ [][NextProfile]_vars

(* Sessions: one account logs in, and then logs out, changes its password
   by update, resets its password and is blocked and unblocked, while the
   session token is presented to the guarded routes.  One login is made
   and one reset token is issued.  Time moves in half session lifetimes. *)
SessionUpdateBodies ==
    { UpdateBody(Empty, Empty, NoAge, PwAbcdef12, PwNewPass12) }

NextSession ==
    \/ \E b \in ValidBodies({EmailA}) : Register(b)
    \/ \E i \in 1..MaxUsers, b \in BOOLEAN : SetBlocked(i, b)
    \/ \E p \in AccountPasswords :
          /\ LoginRoute("10.0.0.1", EmailA, p)
          /\ attempts'["10.0.0.1"].count <= 1
    \/ \E h \in AccountHeaders : LogoutRoute(h)
    \/ \E h \in AccountHeaders : AuthenticateToken(h)
    \/ \E h \in AccountHeaders, b \in SessionUpdateBodies : UpdateRoute(h, b)
    \/ RequestPasswordReset(EmailA, TRUE) /\ tokenCount' <= 1
    \/ ResetPassword(1, PwAbcdef12)
    \/ Tick((JWT_EXPIRES_IN * 1000) \div 2, MaxTicksAuth)

SpecSession == Init /\ [][NextSession]_vars

(* Account deletion behind the guard, for two accounts and the session
   token of either.  Time moves in half session lifetimes. *)
NextDelete ==
    \/ \E b \in ValidBodies({EmailA, EmailB}) : Register(b)
    \/ \E e \in LoginEmails :
          /\ LoginRoute("10.0.0.1", e, PwAbcdef12)
          /\ attempts'["10.0.0.1"].count <= 2
    \/ \E h \in SessionHeaders : DeleteRoute(h)
    \/ \E h \in SessionHeaders : AuthenticateToken(h)
    \/ Tick((JWT_EXPIRES_IN * 1000) \div 2, MaxTicksAuth)

SpecDelete == Init /\ [][NextDelete]_vars

(* Two requests at a time to the routes that load a document and save it
   later: registrations of one email, reset requests for it and password
   resets with the tokens issued.  The clock stands still, so no token
   expires. *)
Racers == {1, 2}

NextRace ==
    \/ \E p \in Racers, b \in ValidBodies({EmailA}) : RegisterReads(p, b)
    \/ \E p \in Racers : RegisterSaves(p)
    \/ \E p \in Racers, op \in {"requestPasswordReset", "resendResetToken"} :
          IssueReads(p, op, EmailA, TRUE)
    \/ \E p \in Racers : IssueSaves(p)
    \/ \E p \in Racers, t \in 1..MaxTokens, w \in AccountPasswords :
          ResetReads(p, t, w)
    \/ \E p \in Racers : ResetSaves(p)
    \/ \E p \in Racers : Completes(p)

SpecRace == Init /\ [][NextRace]_vars

(* Login requests from one address that are in flight together, in one
   throttle window: each request takes the next free slot and none
   leaves. *)
NextThrottle ==
    \/ \E b \in ValidBodies({EmailA}) : Register(b)
    \/ \E p \in Requests, w \in AccountPasswords :
          /\ \A q \in 1..(p - 1) : inflight[q] # Idle
          /\ LoginArrives(p, "10.0.0.1", EmailA, w)
    \/ \E p \in Requests : LoginAnswers(p)

SpecThrottle == Init /\ [][NextThrottle]_vars

(* Password resets with new passwords that pass and that fail the strength
   rule, for one account.  Time moves in half token lifetimes. *)
WeakPasswords == {PwShort, PwNoDigit, PwNoUpper, PwNoLower}

NextStrength ==
    \/ \E b \in ValidBodies({EmailA}) : Register(b)
    \/ \E m \in BOOLEAN : RequestPasswordReset(EmailA, m)
    \/ \E t \in 1..MaxTokens, p \in WeakPasswords \cup {PwNewPass12} :
          ResetPassword(t, p)
    \/ Tick(RESET_TOKEN_TTL \div 2, MaxTicksReset)

SpecStrength == Init /\ [][NextStrength]_vars

(* Requests during which the store fails, next to registrations and logins
   that it serves. *)
OpenHandlers == { "register", "requestPasswordReset", "resendResetToken",
                  "validateResetToken", "resetPassword" }

NextFailure ==
    \/ \E b \in ValidBodies({EmailA}) : Register(b)
    \/ \E ip \in Addresses : LoginRoute(ip, EmailA, PwAbcdef12)
    \/ \E op \in OpenHandlers : HandlerStoreFails(op)
    \/ \E ip \in Addresses : LoginStoreFails(ip)
    \/ \E h \in AccountHeaders : UpdateStoreFails(h)

SpecFailure == Init /\ [][NextFailure]_vars

---------------------------------------------------------------------------
(* Properties *)

\* the errorType and the message of a response, "" when it carries none
errorTypeOf(r) == IF "errorType" \in DOMAIN r.body THEN r.body.errorType ELSE ""
messageOf(r) == IF "message" \in DOMAIN r.body THEN r.body.message ELSE ""

ResetOps == {"requestPasswordReset", "resendResetToken"}

\* passwords that satisfy the strength rule
StrongPasswords == {PwAbcdef12, PwNewPass12}

\* the reset-request handler named op
issueHandler(op, store, now, email, resetToken, mailOk) ==
    IF op = "requestPasswordReset"
    THEN requestPasswordReset(store, now, email, resetToken, mailOk)
    ELSE resendResetToken(store, now, email, resetToken, mailOk)

(* C1: a reset token consumed by resetPassword is from then on rejected by
   validateResetToken with errorType token_used and by resetPassword with
   the 'already been used' message, also before its expiry. *)
C1_ConsumedTokenReportsUsed ==
    \A t \in consumed :
        /\ validateResetToken(users, clock, t).status = 400
        /\ errorTypeOf(validateResetToken(users, clock, t)) = "token_used"
        /\ \A p \in StrongPasswords :
              /\ resetPassword(users, clock, t, p).res.status = 400
              /\ messageOf(resetPassword(users, clock, t, p).res)
                    = "This reset link has already been used"

(* C2: a reset request for an existing account gets the same status (202)
   and the same body as the same request gets when no account has that
   email.  Stated for requests whose email delivery succeeded. *)
C2_ResetResponseHidesExistence ==
    (hist.op \in ResetOps /\ hist.email # Empty /\ hist.user # NotFound
        /\ hist.mailOk) =>
        LET others == SelectSeq(users, LAMBDA u : u.email # hist.email)
            unknown == issueHandler(hist.op, others, clock, hist.email,
                                     hist.issued, hist.mailOk).res
        IN  /\ res.status = 202
            /\ res \in unknown

(* C3: when email delivery fails after the token was saved, request-reset
   and resend-reset still answer as they do when delivery succeeds, and the
   saved token is issued and validates. *)
C3_DeliveryFailureIsNotFatal ==
    (hist.op \in ResetOps /\ hist.user # NotFound /\ ~hist.mailOk) =>
        /\ res \in issueHandler(hist.op, users, clock, hist.email,
                                hist.issued, TRUE).res
        /\ res.status \in {200, 202}
        /\ users[hist.user].resetPasswordToken = hist.issued
        /\ ~users[hist.user].resetPasswordUsed
        /\ validateResetToken(users, clock, hist.issued).status = 200

(* C6: no two user records have emails that are equal ignoring case, and
   an otherwise valid registration under a case variant of a registered
   email is answered 409 and creates no record. *)
C6_EmailsUniqueIgnoringCase ==
    /\ \A i, j \in DOMAIN users :
          i # j => toLowerCase(users[i].email) # toLowerCase(users[j].email)
    /\ \A i \in DOMAIN users :
          \A b \in ValidBodies({EmailA, EmailAUpper}) :
              toLowerCase(b.email) = toLowerCase(users[i].email) =>
                  /\ register(users, b).res.status = 409
                  /\ register(users, b).users = users

\* the reset tokens generated so far that validateResetToken accepts for user i
LiveTokens(i) ==
    { t \in 1..tokenCount :
        /\ validateResetToken(users, clock, t).status = 200
        /\ findOneByResetToken(users, t) = i }

(* C10: a reset token overwritten by a later issuance for its user is from
   then on rejected by validateResetToken and by resetPassword, which
   changes nothing; at most one token value per user passes validation. *)
C10_SupersededTokenIsDead ==
    /\ \A t \in superseded :
          /\ validateResetToken(users, clock, t).status = 400
          /\ \A p \in StrongPasswords :
                /\ resetPassword(users, clock, t, p).res.status = 400
                /\ resetPassword(users, clock, t, p).users = users
    /\ \A i \in DOMAIN users : Cardinality(LiveTokens(i)) <= 1

\* a superseded token was presented and rejected while its successor is live
C10_Witness ==
    /\ hist.op \in {"validateResetToken", "resetPassword"}
    /\ hist.token \in superseded
    /\ res.status = 400
    /\ \E i \in DOMAIN users : LiveTokens(i) # {}

(* C4: per address and window, attempts 1 to 5 are passed on to the login
   handler and every later attempt inside the window is answered 429 by the
   limiter without reaching the login handler; so at most 5 attempts of a
   window reach credential verification. *)
C4_AtMostFivePerWindow ==
    /\ \A ip \in Addresses :
          win[ip].passed = IF win[ip].n <= 5 THEN win[ip].n ELSE 5
    /\ hist.op = "login" =>
          IF win[hist.ip].n <= 5
          THEN nextCalled /\ res.op = "login"
          ELSE ~nextCalled /\ res.op = "loginLimiter" /\ res.status = 429

\* a sixth attempt inside one window was made and answered 429
C4_Witness ==
    /\ hist.op = "login"
    /\ win[hist.ip].n >= 6
    /\ clock > win[hist.ip].start
    /\ res.status = 429

(* C5: the first attempt made when at least 10 minutes have passed since
   the window's first attempt is allowed and leaves the record at count 1
   with the window starting now, whatever happened in the old window; the
   record's window start is always the first attempt of the window, so a
   denied attempt never moves it. *)
C5_WindowResetsFromFirstAttempt ==
    /\ (hist.op = "login" /\ win[hist.ip].n = 1) =>
          /\ attempts[hist.ip] = [count |-> 1, firstAttempt |-> clock]
          /\ nextCalled
          /\ res.op = "login"
    /\ \A ip \in Addresses :
          win[ip].n > 0 =>
              /\ attempts[ip].firstAttempt = win[ip].start
              /\ attempts[ip].count = win[ip].n

\* an attempt opened a new window after a window that saw denied attempts
C5_Witness ==
    /\ hist.op = "login"
    /\ win[hist.ip].n = 1
    /\ win[hist.ip].prevDenied
    /\ nextCalled

\* the user that a login with this email is checked against
LoginUser(email) == findOneByEmail(users, email)

(* C9: a login for a user whose blocked flag is true is never answered 200
   and returns no token; with the correct password, when the limiter lets
   it through, it is answered 423. *)
C9_BlockedLoginGetsNoToken ==
    (hist.op = "login" /\ LoginUser(hist.email) # NotFound
        /\ users[LoginUser(hist.email)].isBlocked) =>
        /\ res.status # 200
        /\ "token" \notin DOMAIN res.body
        /\ (nextCalled /\ bcryptCompare(hist.password, users[LoginUser(hist.email)].password))
              => res.status = 423

\* a blocked user logged in with the correct password
C9_Witness ==
    /\ hist.op = "login"
    /\ LoginUser(hist.email) # NotFound
    /\ users[LoginUser(hist.email)].isBlocked
    /\ bcryptCompare(hist.password, users[LoginUser(hist.email)].password)
    /\ res.status = 423

\* the token presented by the last authenticateToken call
Presented == headerToken(hist.header)

\* its claims are signed with the server's secret
ServerSigned(t) == t # NoCredentials /\ t # MalformedToken /\ t.sig = JWT_SECRET

\* its claims are signed, with a secret that is not the server's
ForeignSigned(t) == t # NoCredentials /\ t # MalformedToken /\ t.sig # JWT_SECRET

\* the time, in seconds, has reached its expiry
PastExpiry(t) == clock \div 1000 >= t.exp

\* the guard rejected the request with this status and errorType, attached
\* no identity and did not call next()
Rejected(status, errorType) ==
    /\ res.op = "authenticateToken"
    /\ res.status = status
    /\ errorTypeOf(res) = errorType
    /\ reqUser = NoUser
    /\ ~nextCalled

(* C7: authenticateToken answers a token whose signature does not verify
   under the server secret with 401 invalid_token, and a correctly signed
   token past its expiry with 401 token_expired; in both cases req.user is
   not set and next() is not called. *)
C7_BadTokensAreRejected ==
    hist.op = "authenticateToken" =>
        /\ ForeignSigned(Presented) => Rejected(401, "invalid_token")
        /\ (ServerSigned(Presented) /\ PastExpiry(Presented))
              => Rejected(401, "token_expired")

\* a token issued by login was presented after its expiry
C7_Witness ==
    /\ hist.op = "authenticateToken"
    /\ Presented \in jwts
    /\ PastExpiry(Presented)
    /\ Rejected(401, "token_expired")

(* C8: authenticateToken answers with the first check that fails, in the
   order header, token verification, user lookup, blocked flag; a request
   with the unexpired, correctly signed token of a user whose blocked flag
   is true is answered 423 account_blocked, attaches no identity and does
   not call next().  The header check fails when the header carries no
   token. *)
C8_ChecksInOrder ==
    hist.op = "authenticateToken" =>
        IF Presented = NoCredentials
        THEN Rejected(401, "missing_token")
        ELSE IF ~ServerSigned(Presented)
        THEN Rejected(401, "invalid_token")
        ELSE IF PastExpiry(Presented)
        THEN Rejected(401, "token_expired")
        ELSE IF Presented.id \notin DOMAIN users
        THEN Rejected(401, "user_not_found")
        ELSE IF users[Presented.id].isBlocked
        THEN Rejected(423, "account_blocked")
        ELSE /\ nextCalled
             /\ reqUser.id = Presented.id

\* the valid token of a blocked user was presented
C8_Witness ==
    /\ hist.op = "authenticateToken"
    /\ Presented \in jwts
    /\ ~PastExpiry(Presented)
    /\ users[Presented.id].isBlocked
    /\ Rejected(423, "account_blocked")

\* the users whose record holds a reset token that was not consumed
HoldsToken == {i \in DOMAIN users : users[i].resetPasswordToken # Undefined
                                      /\ ~users[i].resetPasswordUsed}

(* C11: a stored, never-consumed reset token is rejected with the expired
   reason by validateResetToken and resetPassword at every time strictly
   later than its stored expiry, and resetPassword then changes no record;
   up to and including the expiry instant the token is accepted.  The
   reason is that of the token for a new password that passes the strength
   rule; a weak one is rejected for its weakness, and changes nothing. *)
C11_ExpiredTokenIsRejected ==
    \A i \in HoldsToken :
        LET t == users[i].resetPasswordToken
            v == validateResetToken(users, clock, t)
        IN  IF clock > users[i].resetPasswordExpires
            THEN /\ v.status = 400
                 /\ errorTypeOf(v) = "token_expired"
                 /\ \A p \in ResetPasswords :
                       /\ resetPassword(users, clock, t, p).res.status = 400
                       /\ resetPassword(users, clock, t, p).users = users
                 /\ \A p \in StrongPasswords :
                       messageOf(resetPassword(users, clock, t, p).res)
                          = "Reset token has expired"
            ELSE /\ v.status = 200
                 /\ v.body.valid
                 /\ \A p \in StrongPasswords :
                       /\ resetPassword(users, clock, t, p).res.status = 200
                       /\ resetPassword(users, clock, t, p).users[i].password
                             = bcryptHash(p)

\* a stored token was presented to resetPassword after its expiry, with a
\* strong password, and rejected as expired
C11_Witness ==
    /\ hist.op = "resetPassword"
    /\ hist.newPassword \in StrongPasswords
    /\ \E i \in HoldsToken :
          /\ users[i].resetPasswordToken = hist.token
          /\ clock > users[i].resetPasswordExpires
    /\ messageOf(res) = "Reset token has expired"

(* C12: immediately after request-reset or resend-reset for an existing
   user at time t, the user record holds the new token with expiry t + 1
   hour and used = false, and validateResetToken answers that token with
   200, valid = true, the user's email and that expiry; also when the
   user's previous token had been consumed. *)
C12_IssuedTokenValidates ==
    (hist.op \in ResetOps /\ hist.user # NotFound) =>
        LET u == users[hist.user]
            v == validateResetToken(users, clock, hist.issued)
        IN  /\ u.resetPasswordToken = hist.issued
            /\ u.resetPasswordExpires = clock + 3600000
            /\ u.resetPasswordUsed = FALSE
            /\ v.status = 200
            /\ v.body.valid
            /\ v.body.email = u.email
            /\ v.body.expiresAt = clock + 3600000

\* the messages of resetPassword's rejections for a token reason
TokenReasons == { "Invalid reset token",
                  "This reset link has already been used",
                  "Reset token has expired" }

(* C13: a resetPassword call that is rejected for a token reason (token not
   found, already used, or expired) leaves every stored user record exactly
   as it was. *)
C13_RejectedResetChangesNothing ==
    [][ ( /\ hist'.op = "resetPassword"
          /\ res'.op = "resetPassword"
          /\ res'.status = 400
          /\ messageOf(res') \in TokenReasons ) => users' = users ]_vars

\* resetPassword rejected the stored token of a user as expired
C13_Witness ==
    /\ hist.op = "resetPassword"
    /\ messageOf(res) = "Reset token has expired"
    /\ \E i \in DOMAIN users : users[i].resetPasswordToken = hist.token

(* C14: after any sequence of register, update and resetPassword
   operations, every stored user's password field is the hash of the most
   recently accepted plaintext, is not that plaintext, and verifying the
   plaintext against the stored value succeeds. *)
C14_StoredPasswordIsHashOfLastAccepted ==
    /\ Len(accepted) = Len(users)
    /\ \A i \in DOMAIN users :
          /\ users[i].password = bcryptHash(accepted[i])
          /\ users[i].password # accepted[i]
          /\ bcryptCompare(accepted[i], users[i].password)

\* update has just replaced a registered password
C14_Witness ==
    /\ hist.op = "update"
    /\ res.status = 200
    /\ hist.body.password = PwNewPass12
    /\ accepted[reqUser.id] = PwNewPass12
    /\ users[reqUser.id].password = bcryptHash(PwNewPass12)

(* C16: update changes a user's stored password hash only when the request
   carries an oldPassword that verifies against the hash stored at that
   time; a request with password but no oldPassword, or with an oldPassword
   that does not verify, is rejected and no field of any record changes,
   the email, name and age of the same request included. *)
C16_PasswordChangeNeedsOldPassword ==
    [][ hist'.op = "update" =>
          LET b == hist'.body
              uid == reqUser'.id
          IN  /\ \A i \in DOMAIN users :
                    users'[i].password # users[i].password =>
                        /\ i = uid
                        /\ b.oldPassword # Empty
                        /\ bcryptCompare(b.oldPassword, users[i].password)
              /\ ( /\ b.password # Empty
                   /\ \/ b.oldPassword = Empty
                      \/ uid \notin DOMAIN users
                      \/ ~bcryptCompare(b.oldPassword, users[uid].password) )
                    => /\ res'.status \in 400..499
                       /\ users' = users ]_vars

\* an authenticated update with a new email, name, age and password and an
\* oldPassword that does not verify was answered 401 and persisted nothing
C16_Witness ==
    /\ hist.op = "update"
    /\ nextCalled
    /\ hist.body.password # Empty
    /\ hist.body.email # Empty
    /\ hist.body.name # Empty
    /\ res.status = 401
    /\ messageOf(res) = "Invalid password"
    /\ users[reqUser.id].email # trim(hist.body.email)
    /\ users[reqUser.id].name # hist.body.name

(* C17, as claimed: every update request in which oldPassword equals
   password is answered 400 with the 'cannot be the same' message. *)
C17_EqualPasswordsAnswered400 ==
    ( /\ hist.op = "update"
      /\ nextCalled
      /\ hist.body.oldPassword # Empty
      /\ hist.body.oldPassword = hist.body.password )
        => /\ res.status = 400
           /\ messageOf(res) = "New password cannot be the same as the old password"

(* C17, amended: an update request in which oldPassword equals password,
   oldPassword verifies against the stored hash, and the email and age of
   the request (if any) pass their checks, is answered 400 with the 'cannot
   be the same' message and leaves the stored user record unchanged. *)
C17_CurrentPasswordAsNewIsRejected ==
    [][ ( /\ hist'.op = "update"
          /\ nextCalled'
          /\ hist'.body.oldPassword # Empty
          /\ hist'.body.oldPassword = hist'.body.password
          /\ bcryptCompare(hist'.body.oldPassword, users[reqUser'.id].password)
          /\ hist'.body.age \in {NoAge} \cup 13..122
          /\ LET e == trim(hist'.body.email)
                 other == findOneByEmailIgnoreCase(users, e)
             IN  \/ e = Empty
                 \/ other \in {NotFound, reqUser'.id}
                 \/ toLowerCase(trim(users[reqUser'.id].email)) = toLowerCase(e) )
        => /\ res'.status = 400
           /\ messageOf(res') = "New password cannot be the same as the old password"
           /\ users' = users ]_vars

\* the current password was sent as old and new password together with a
\* new name, and the name was not persisted
C17_Witness ==
    /\ hist.op = "update"
    /\ nextCalled
    /\ hist.body.oldPassword = hist.body.password
    /\ hist.body.name # Empty
    /\ res.status = 400
    /\ messageOf(res) = "New password cannot be the same as the old password"
    /\ users[reqUser.id].name # hist.body.name

(* C15: after a successful register(e, p, p, name, age), login(e, p) from
   an address that is not throttled returns 200 with a token, and
   authenticateToken on that token before its expiry passes and attaches
   an identity whose id, email and name are those of the registered
   record.  Stated for a user that no operator has blocked. *)
C15_RegisterLoginAuthenticate ==
    /\ ( /\ hist.op = "login"
         /\ nextCalled
         /\ LoginUser(hist.email) # NotFound
         /\ bcryptCompare(hist.password, users[LoginUser(hist.email)].password)
         /\ ~users[LoginUser(hist.email)].isBlocked )
          => /\ res.status = 200
             /\ "token" \in DOMAIN res.body
             /\ res.body.token.id = LoginUser(hist.email)
             /\ jwtVerify(res.body.token, JWT_SECRET, clock) = "ok"
    /\ ( /\ hist.op = "authenticateToken"
         /\ Presented \in jwts
         /\ ~PastExpiry(Presented) )
          => /\ Presented.id \in DOMAIN users
             /\ users[Presented.id].email = Presented.email
             /\ ~users[Presented.id].isBlocked
                  => /\ nextCalled
                     /\ reqUser = [ id |-> Presented.id,
                                    email |-> users[Presented.id].email,
                                    name |-> users[Presented.id].name ]

\* the second registered user logged in and its token passed the guard
C15_Witness ==
    /\ hist.op = "authenticateToken"
    /\ Presented \in jwts
    /\ nextCalled
    /\ reqUser.id = 2
    /\ reqUser.email = users[2].email
    /\ reqUser.name = users[2].name

(* C18: a login with an email that matches no user and a login with an
   existing email and a wrong password, both from addresses that are not
   throttled, get the same status and the same response body. *)
C18_LoginHidesWhichFactorFailed ==
    ( /\ hist.op = "login"
      /\ nextCalled
      /\ LoginUser(hist.email) # NotFound
      /\ ~bcryptCompare(hist.password, users[LoginUser(hist.email)].password) )
        => /\ LoginUser(EmailB) = NotFound
           /\ res.status = login(users, clock, EmailB, hist.password).res.status
           /\ res.body = login(users, clock, EmailB, hist.password).res.body

\* the handlers of the credential routes
Handlers == OpenHandlers \cup {"login", "update"}

(* C19: every request to register, login, update, request-reset,
   resend-reset, validate-token and reset-password receives a response;
   when a store read or write fails inside the handler, the response is a
   5xx server error with a generic message. *)
C19_StoreFailureIsAnswered5xx ==
    (hist.op \in Handlers /\ "storeFails" \in DOMAIN hist /\ hist.storeFails) =>
        /\ res.status # NoResponseStatus
        /\ res.status \in 500..599
        /\ messageOf(res) \in {"Try again later", "Try it again later"}

(* C20: authenticateToken answers 401 missing_token, verifies no token and
   attaches no identity whenever the Authorization header is absent or is
   not of the form 'Bearer <token>', for example another scheme word
   followed by a token. *)
C20_NonBearerHeaderIsMissingToken ==
    ( /\ hist.op = "authenticateToken"
      /\ \/ ~hist.header.present
         \/ hist.header.scheme # "Bearer"
         \/ hist.header.credentials = NoCredentials )
        => Rejected(401, "missing_token")

(* C21: authenticateToken sets req.user, and calls next(), exactly when a
   token is presented, the token is signed by the server and not past its
   expiry, its user exists and its user is not blocked; req.user then has
   the fields id, email and name and no other, with the values of the
   stored record. *)
C21_IdentityIffAllChecksPass ==
    hist.op = "authenticateToken" =>
        LET t == Presented
            pass == /\ t # NoCredentials
                    /\ ServerSigned(t)
                    /\ ~PastExpiry(t)
                    /\ t.id \in DOMAIN users
                    /\ ~users[t.id].isBlocked
        IN  /\ (reqUser # NoUser) <=> pass
            /\ nextCalled <=> pass
            /\ pass => /\ DOMAIN reqUser = {"id", "email", "name"}
                       /\ reqUser.id = t.id
                       /\ reqUser.email = users[t.id].email
                       /\ reqUser.name = users[t.id].name

\* the first of two registered users passed the guard and was attached
C21_Witness ==
    /\ hist.op = "authenticateToken"
    /\ Len(users) = 2
    /\ reqUser # NoUser
    /\ reqUser.id = 1
    /\ DOMAIN reqUser = {"id", "email", "name"}

\* the last step was a register or an update that carried an age outside
\* [13,122]
CarriedAgeOutsideRange ==
    \/ hist.op = "register" /\ hist.body.age \notin 13..122
    \/ /\ hist.op = "update"
       /\ nextCalled
       /\ hist.body.age # NoAge
       /\ hist.body.age \notin 13..122

\* the update handler ran on an email that, ignoring case, is the email of
\* a user other than the one updated
EmailOfAnother(store, me, email) ==
    \E j \in DOMAIN store :
        j # me /\ toLowerCase(store[j].email) = toLowerCase(trim(email))

(* C22, as claimed: every stored age lies in [13,122], and a register or
   update carrying an integer age outside that range is answered 400 and
   changes no record. *)
C22_AgeOutsideRangeAnswered400 ==
    [][ /\ \A i \in DOMAIN users' : users'[i].age \in 13..122
        /\ CarriedAgeOutsideRange' => res'.status = 400 /\ users' = users ]_vars

(* C22, amended: every stored age lies in [13,122], and a register or
   update carrying an integer age outside that range changes no record and
   is answered 400, or 409 when it is an update that also sets an email
   which, ignoring case, belongs to a different user. *)
C22_AgesStayInRange ==
    [][ /\ \A i \in DOMAIN users' : users'[i].age \in 13..122
        /\ CarriedAgeOutsideRange' =>
              /\ users' = users
              /\ res'.status \in {400, 409}
              /\ res'.status = 409 <=>
                    /\ hist'.op = "update"
                    /\ trim(hist'.body.email) # Empty
                    /\ toLowerCase(users[reqUser'.id].email)
                          # toLowerCase(trim(hist'.body.email))
                    /\ EmailOfAnother(users, reqUser'.id, hist'.body.email) ]_vars

\* an update with age 123 and no email was answered 400 for a user whose
\* age had been changed by an earlier update
C22_Witness ==
    /\ hist.op = "update"
    /\ nextCalled
    /\ hist.body.age = 123
    /\ hist.body.email = Empty
    /\ res.status = 400
    /\ messageOf(res) = "Please enter a valid age"
    /\ users[reqUser.id].age = 122
    /\ \E i \in DOMAIN users : users[i].age = 13

\* no two records have emails that are equal ignoring case
EmailsDifferIgnoringCase(store) ==
    \A i, j \in DOMAIN store :
        i # j => toLowerCase(store[i].email) # toLowerCase(store[j].email)

(* C23: an update that sets the email to a value equal, ignoring case, to
   the email of a different user is answered 409 and changes no record; an
   update that sets only the email, to a case variant of the user's own
   email, is answered 200 and stores it; and no update takes a collection
   whose emails differ ignoring case to one where two are equal ignoring
   case. *)
C23_UpdateKeepsEmailsUnique ==
    [][ ( /\ hist'.op = "update"
          /\ nextCalled'
          /\ trim(hist'.body.email) # Empty )
        => LET me == reqUser'.id
               e == trim(hist'.body.email)
           IN  /\ EmailOfAnother(users, me, e)
                    => res'.status = 409 /\ users' = users
               /\ ( /\ toLowerCase(users[me].email) = toLowerCase(e)
                    /\ hist'.body.age = NoAge )
                    => res'.status = 200 /\ users'[me].email = e
               /\ EmailsDifferIgnoringCase(users)
                    => EmailsDifferIgnoringCase(users') ]_vars

\* the routes behind authenticateToken
GuardedRoutes == {"authenticateToken", "logout", "update"}

(* C24: a session token issued by login expires two hours after it was
   issued; presented to a guarded route before its expiry it passes
   authenticateToken whenever its user exists and is not blocked, whatever
   logout, password change by update or password reset happened since it
   was issued; presented at or after its expiry it is
   answered 401 token_expired. *)
C24_SessionTokenLivesUntilExpiry ==
    /\ \A t \in jwts : t.exp = t.iat + 2 * 60 * 60
    /\ ( hist.op \in GuardedRoutes /\ Presented \in jwts )
          => /\ ( /\ ~PastExpiry(Presented)
                  /\ Presented.id \in DOMAIN users
                  /\ ~users[Presented.id].isBlocked )
                  => nextCalled /\ reqUser.id = Presented.id
             /\ PastExpiry(Presented)
                  => /\ ~nextCalled
                     /\ reqUser = NoUser
                     /\ Rejected(401, "token_expired")

\* a token passed the guard after it was presented to logout, after its
\* user's password was reset and then changed by update, and an hour after
\* it was issued
C24_Witness ==
    /\ hist.op = "authenticateToken"
    /\ Presented \in jwts
    /\ Presented \in loggedOut
    /\ consumed # {}
    /\ accepted[Presented.id] = PwNewPass12
    /\ clock \div 1000 > Presented.iat
    /\ nextCalled

\* the requests p and q are both answered and were both handled by op
BothDone(p, q, ops) ==
    /\ p # q
    /\ inflight[p].pc = "done" /\ inflight[p].op \in ops
    /\ inflight[q].pc = "done" /\ inflight[q].op \in ops

(* C25: of two resetPassword requests that carry the same token, are in
   flight together and are both answered, at most one was answered 200,
   and so at most one of their passwords was written. *)
C25_TokenConsumedOnceUnderRace ==
    \A p, q \in Racers :
        ( /\ BothDone(p, q, {"resetPassword"})
          /\ inflight[p].body.token = inflight[q].body.token )
            => ~(inflight[p].res.status = 200 /\ inflight[q].res.status = 200)

(* C26: of two register requests with the same email that are in flight
   together and are both answered, where no record had the email before
   them, one was answered 201 and the other 409, and one record has the
   email. *)
C26_ConcurrentRegistersOneWins ==
    \A p, q \in Racers :
        LET e == inflight[p].body.email
            holders == {i \in DOMAIN users : users[i].email = e}
        IN  ( /\ BothDone(p, q, {"register"})
              /\ inflight[q].body.email = e
              /\ holders \subseteq {inflight[p].id, inflight[q].id} )
                => /\ {inflight[p].res.status, inflight[q].res.status} = {201, 409}
                   /\ Cardinality(holders) = 1

\* the login requests from address ip that are in flight or answered, and
\* those of them that loginLimiter passed on to the login handler
LoginsFrom(ip) ==
    {p \in Requests : inflight[p].op = "login" /\ inflight[p].body.ip = ip}
PassedOn(ip) ==
    {p \in LoginsFrom(ip) : inflight[p].pc = "findOne"
                             \/ inflight[p].res.op = "login"}

Min(a, b) == IF a < b THEN a ELSE b

(* C27: when N login requests from one address are in flight together in
   one throttle window, in whatever order the server takes their steps, the
   address's counter is N, min(N,5) of them were passed on to the login
   handler and the others were answered 429. *)
C27_ThrottleCountsEveryRequest ==
    \A ip \in Addresses :
        LET n == Cardinality(LoginsFrom(ip))
        IN  /\ attempts[ip].count = n
            /\ Cardinality(PassedOn(ip)) = Min(n, 5)
            /\ \A p \in LoginsFrom(ip) \ PassedOn(ip) :
                  inflight[p].res = TooManyRequests

\* six requests came in before the handler answered the first of them
C27_Witness ==
    /\ Cardinality(LoginsFrom("10.0.0.1")) = 6
    /\ inflight[1].pc = "findOne"
    /\ inflight[6].pc = "done"
    /\ inflight[6].res.status = 429
    /\ \E p \in Requests : inflight[p].pc = "done" /\ inflight[p].res.status = 200

(* C28: when two request-reset / resend-reset requests for the same user
   were in flight together and both have saved, then right after the second
   save the record holds the token and the expiry that this save wrote with
   used = false, this token validates and the token of the other request
   is rejected as not found. *)
C28_LastIssuanceWins ==
    \A p, q \in Racers :
        ( /\ BothDone(p, q, ResetOps)
          /\ hist.op \in ResetOps /\ hist.step = "save" /\ hist.request = p
          /\ inflight[p].id # NotFound
          /\ inflight[q].id = inflight[p].id )
            => LET u == users[inflight[p].id]
                   mine == inflight[p].doc.resetPasswordToken
                   other == inflight[q].doc.resetPasswordToken
               IN  /\ u.resetPasswordToken = mine
                   /\ u.resetPasswordExpires = inflight[p].doc.resetPasswordExpires
                   /\ u.resetPasswordUsed = FALSE
                   /\ validateResetToken(users, clock, mine).status = 200
                   /\ validateResetToken(users, clock, other).status = 400
                   /\ errorTypeOf(validateResetToken(users, clock, other))
                        = "invalid_token"

\* both requests loaded the record before either saved, and the request
\* that loaded first saved last
C28_Witness ==
    /\ BothDone(1, 2, ResetOps)
    /\ hist.op \in ResetOps /\ hist.step = "save" /\ hist.request = 1
    /\ inflight[1].id = 1 /\ inflight[2].id = 1
    /\ inflight[1].doc.resetPasswordToken = 1
    /\ inflight[2].doc.resetPasswordToken = 2
    /\ inflight[2].loaded.resetPasswordToken = Undefined
    /\ users[1].resetPasswordToken = 1

\* the reset tokens whose issuance has saved the record
IssuedAndSaved ==
    {t \in 1..tokenCount :
        \A p \in Requests :
            ~( /\ inflight[p].op \in ResetOps
               /\ inflight[p].pc = "save"
               /\ inflight[p].doc.resetPasswordToken = t )}

(* C29: a reset token whose issuance has saved the record validates until
   it is consumed, expires or is superseded by a later issuance, whatever
   requests were in flight when it was saved. *)
C29_SavedTokenStaysValid ==
    \A t \in IssuedAndSaved \ (consumed \cup superseded) :
        validateResetToken(users, clock, t).status = 200

(* C30: a login request that the throttle denies is answered by
   loginLimiter, not by login: the status is 429 and the body is the one
   message 'Too many requests' and nothing else, whatever email and
   password were submitted; and login never answers 429. *)
C30_ThrottledAnswerIsTheSameForAll ==
    hist.op = "login" =>
        /\ ~nextCalled => /\ res.op = "loginLimiter"
                          /\ res.status = 429
                          /\ res.body = [message |-> "Too many requests"]
        /\ nextCalled => res.op = "login" /\ res.status # 429

\* the sixth attempt of a window carried the right password of a registered
\* user that is not blocked, and was answered 429
C30_Witness ==
    /\ hist.op = "login"
    /\ ~nextCalled
    /\ attempts[hist.ip].count = 6
    /\ LoginUser(hist.email) # NotFound
    /\ bcryptCompare(hist.password, users[LoginUser(hist.email)].password)
    /\ ~users[LoginUser(hist.email)].isBlocked
    /\ res.status = 429

\* the reset-token values that the body of response r carries: the
\* resetPasswordToken of a user object, and the token of a reset-request
\* answer
ResetTokensIn(r) ==
    ( IF "user" \in DOMAIN r.body
         /\ "resetPasswordToken" \in DOMAIN r.body.user
      THEN {r.body.user.resetPasswordToken} ELSE {} )
    \cup ( IF r.op \in ResetOps /\ "token" \in DOMAIN r.body
           THEN {r.body.token} ELSE {} )

(* C31: no response body of request-reset, reset-password, login or update
   carries the value of a reset token that is live for some user. *)
C31_LiveResetTokenNotInResponses ==
    \A i \in DOMAIN users : LiveTokens(i) \cap ResetTokensIn(res) = {}

\* the step was a resetPassword that answered 200 for user u, who is not
\* blocked
ResetSucceededFor(u) ==
    /\ hist'.op = "resetPassword"
    /\ res'.status = 200
    /\ hist'.user = u
    /\ ~users'[u].isBlocked

\* what a successful resetPassword(T, p) for user u leaves behind, apart
\* from the fate of the previous password
ResetEffect(u) ==
    /\ login(users', clock', users'[u].email, hist'.newPassword).res.status = 200
    /\ users'[u].resetPasswordUsed = TRUE
    /\ users'[u].resetPasswordToken = Undefined
    /\ users'[u].resetPasswordExpires = Undefined
    /\ \A j \in DOMAIN users : j # u => users'[j] = users[j]

(* C32, as claimed: after a successful resetPassword(T, p) for user u,
   login(u.email, p) succeeds, login with the previous password of u is
   answered 401, the record of u has used = true and no token and no
   expiry, and no other record has changed. *)
C32_ResetReplacesPassword ==
    [][ \A u \in DOMAIN users :
          ResetSucceededFor(u)
            => /\ ResetEffect(u)
               /\ login(users', clock', users'[u].email, accepted[u]).res.status
                    = 401 ]_vars

(* C32, amended: as claimed, where login with the previous password of u is
   answered 401 when p is not that previous password. *)
C32_ResetReplacesPasswordByAnother ==
    [][ \A u \in DOMAIN users :
          ResetSucceededFor(u)
            => /\ ResetEffect(u)
               /\ hist'.newPassword # accepted[u]
                    => login(users', clock', users'[u].email, accepted[u]).res.status
                         = 401 ]_vars

\* the first of two users reset its password to another one; the record
\* of the second kept its own live token
C32_Witness ==
    /\ hist.op = "resetPassword"
    /\ res.status = 200
    /\ hist.user = 1
    /\ Len(users) = 2
    /\ users[1].password = bcryptHash(PwNewPass12)
    /\ users[1].resetPasswordUsed
    /\ users[2].password = bcryptHash(PwAbcdef12)
    /\ users[2].resetPasswordToken # Undefined

\* p fails the strength rule
FailsStrengthRule(p) ==
    \/ Len(p) < 8
    \/ \A i \in DOMAIN p : p[i] \notin LowerChars
    \/ \A i \in DOMAIN p : p[i] \notin UpperChars
    \/ \A i \in DOMAIN p : p[i] \notin DigitChars

(* C33: a resetPassword with a live token and a new password that fails
   the strength rule is answered 400 and changes no record; the token is
   still live afterwards, and a resetPassword with the same token and a
   strong password would then succeed. *)
C33_WeakPasswordKeepsTokenLive ==
    [][ ( /\ hist'.op = "resetPassword"
          /\ validateResetToken(users, clock, hist'.token).status = 200
          /\ FailsStrengthRule(hist'.newPassword) )
        => /\ res'.status = 400
           /\ users' = users
           /\ validateResetToken(users', clock', hist'.token).status = 200
           /\ resetPassword(users', clock', hist'.token, PwNewPass12).res.status
                = 200 ]_vars

\* a password of eight characters without a digit was rejected for a live
\* token, after time had passed
C33_Witness ==
    /\ hist.op = "resetPassword"
    /\ hist.newPassword = PwNoDigit
    /\ res.status = 400
    /\ validateResetToken(users, clock, hist.token).status = 200
    /\ clock > 0
    /\ users[1].password = bcryptHash(PwAbcdef12)

(* C34: in every state of the store, a record whose used flag is true
   stores no token and no expiry, and a record that stores a token has
   used = false. *)
C34_ResetFieldsAreConsistent ==
    \A i \in DOMAIN users :
        /\ users[i].resetPasswordUsed
              => /\ users[i].resetPasswordToken = Undefined
                 /\ users[i].resetPasswordExpires = Undefined
        /\ users[i].resetPasswordToken # Undefined
              => ~users[i].resetPasswordUsed

(* C35: a login attempt from one address leaves the throttle record of
   every other address as it was, and leaves the limiter's decision for the
   next attempt of every other address as it was. *)
C35_LoginLeavesOtherAddressesAlone ==
    [][ attempts' # attempts
          => \A b \in Addresses \ {hist'.ip} :
                /\ attempts'[b] = attempts[b]
                /\ loginLimiter(attempts', b, clock').next
                     = loginLimiter(attempts, b, clock).next ]_vars

\* an attempt of one address was answered 429 while another address holds a
\* record of its own and is still allowed
C35_Witness ==
    /\ hist.op = "login"
    /\ res.status = 429
    /\ \E b \in Addresses \ {hist.ip} :
          /\ attempts[b] # NoRecord
          /\ attempts[b].firstAttempt # attempts[hist.ip].firstAttempt
          /\ loginLimiter(attempts, b, clock).next

(* C36: deleteUser, run after authenticateToken attached the identity,
   removes the record of the authenticated user and no other, and answers
   200; from then on the guard answers that user's session token with
   401 user_not_found. *)
C36_DeleteRemovesTheAuthenticatedUser ==
    [][ ( hist'.op = "deleteUser" /\ nextCalled' )
          => /\ res'.status = 200
             /\ reqUser'.id \notin DOMAIN users'
             /\ \A i \in DOMAIN users \ {reqUser'.id} :
                   i \in DOMAIN users' /\ users'[i] = users[i]
             /\ authenticateToken(users', clock', hist'.header).res.status = 401
             /\ authenticateToken(users', clock', hist'.header).res.body.errorType
                  = "user_not_found" ]_vars

===========================================================================
